---- MODULE Spec2Model ----
(***************************************************************************)
(* Searchspring MCP server: the tool-call handler and the request-compiling *)
(* methods of SearchspringClient (search, autocomplete, finder,             *)
(* recommendations, trackIntelliSuggestEvent).                              *)
(*                                                                          *)
(* Encoding of JavaScript values:                                           *)
(*   - an optional property is a sequence of length <= 1: <<>> is           *)
(*     `undefined`, <<v>> is the value v;                                   *)
(*   - an array is a sequence;                                              *)
(*   - an object used as a mapping (filters, bgfilters, sort) is the        *)
(*     sequence of its properties [k, v] in the order they were inserted;   *)
(*   - a filter value (string | string[]) is [arr, vals]: arr tells whether *)
(*     it is an array, vals holds the string(s);                            *)
(*   - a URLSearchParams is the sequence of its <<name, value>> pairs.      *)
(***************************************************************************)
EXTENDS Integers, Sequences, FiniteSets, TLC

VARIABLES
    config,        \* SearchspringClient.config, fixed at construction
    pc,            \* "idle" | "pending" | "done": position of the CallTool handler
    request,       \* request.params of the call being handled: [name, arguments]
    searchParams,  \* the URLSearchParams compiled by the call
    outbound,      \* the HTTP requests issued by the call, in order
    idLog,         \* the generateId() invocations of the call: [field, value]
    response,      \* what the handler returned: <<>> or <<[isError, text]>>
    env,           \* process.env as read at startup: the SEARCHSPRING_* variables
    generated,     \* the last string generateId() returned: <<>> or <<id>>
    report,        \* the findings validateCode collected for the call: <<>> or <<r>>
    startupError   \* the error main() caught from initializeClient(): <<>> or <<message>>

vars == <<config, pc, request, searchParams, outbound, idLog, response,
          env, generated, report, startupError>>

-----------------------------------------------------------------------------
(* Bounds of the model *)

MaxLen == 2        \* longest array drawn for an array-valued parameter
MaxEntries == 2    \* most properties drawn for a filters / bgfilters / sort mapping

-----------------------------------------------------------------------------
(* Generic helpers *)

Range(s) == {s[i] : i \in DOMAIN s}

SeqsUpTo(S, n) == UNION {[1..k -> S] : k \in 0..n}

RECURSIVE Concat(_)
Concat(ss) == IF ss = <<>> THEN <<>> ELSE Head(ss) \o Concat(Tail(ss))

\* The entries of a URLSearchParams named `key`, as the sequence of their values
RECURSIVE ValuesOf(_, _)
ValuesOf(sp, key) ==
    IF sp = <<>> THEN <<>>
    ELSE (IF Head(sp)[1] = key THEN <<Head(sp)[2]>> ELSE <<>>) \o ValuesOf(Tail(sp), key)

Keys(sp) == [i \in DOMAIN sp |-> sp[i][1]]

-----------------------------------------------------------------------------
(* JavaScript semantics used by the client *)

Undefined == <<>>
Some(v) == <<v>>

Present(opt) == opt # Undefined

\* if (x) for a string | undefined
TruthyStr(opt) == Present(opt) /\ opt[1] # ""

\* if (x) for a number | undefined
TruthyNum(opt) == Present(opt) /\ opt[1] # 0

\* if (x) for a boolean | undefined
TruthyBool(opt) == Present(opt) /\ opt[1] = TRUE

\* if (x) for an object or array | undefined: every object is truthy, the
\* empty ones included
TruthyObj(opt) == Present(opt)

\* The conversion of a value to the string URLSearchParams stores
USVString(opt) == IF Present(opt) THEN opt[1] ELSE "undefined"

\* Array.prototype.join(sep) over strings
RECURSIVE join(_, _)
join(arr, sep) ==
    IF arr = <<>> THEN ""
    ELSE IF Len(arr) = 1 THEN arr[1]
    ELSE arr[1] \o sep \o join(Tail(arr), sep)

\* String.prototype.includes
Includes(text, needle) ==
    \E i \in 1..(Len(text) - Len(needle) + 1) : SubSeq(text, i, i + Len(needle) - 1) = needle

\* String.prototype.startsWith
StartsWith(text, prefix) ==
    Len(text) >= Len(prefix) /\ SubSeq(text, 1, Len(prefix)) = prefix

DecimalDigits == "0123456789"

IsDigit(c) == \E d \in 0..9 : SubSeq(DecimalDigits, d + 1, d + 1) = c

DigitValue(c) == CHOOSE d \in 0..9 : SubSeq(DecimalDigits, d + 1, d + 1) = c

\* A property name is an array index when it is the canonical decimal form
\* of an integer below 2^32 - 1.  Names of up to nine digits are recognised:
\* all of them are below that limit, and no longer name is drawn.
IsArrayIndex(k) ==
    /\ Len(k) \in 1..9
    /\ \A i \in 1..Len(k) : IsDigit(SubSeq(k, i, i))
    /\ Len(k) = 1 \/ SubSeq(k, 1, 1) # "0"

RECURSIVE ArrayIndex(_)
ArrayIndex(k) ==
    IF k = "" THEN 0
    ELSE 10 * ArrayIndex(SubSeq(k, 1, Len(k) - 1)) + DigitValue(SubSeq(k, Len(k), Len(k)))

\* Ascending sort of a set of entries whose keys are array indices
RECURSIVE SortByIndex(_)
SortByIndex(es) ==
    IF es = {} THEN <<>>
    ELSE LET m == CHOOSE e \in es : \A f \in es : ArrayIndex(e.k) <= ArrayIndex(f.k)
         IN  <<m>> \o SortByIndex(es \ {m})

\* Object.entries(obj): own enumerable string-keyed properties in
\* OrdinaryOwnPropertyKeys order, i.e. array-index keys in ascending numeric
\* order first, then the other keys in insertion order
ObjectEntries(obj) ==
    SortByIndex({e \in Range(obj) : IsArrayIndex(e.k)})
        \o SelectSeq(obj, LAMBDA e : ~IsArrayIndex(e.k))

-----------------------------------------------------------------------------
(* The remote API: what an outbound HTTP request comes back with *)

HttpOutcomes == {"ok", "status", "network"}

\* JSON.stringify(response.data, null, 2): the body is the remote side's
ResponseData == "{data}"

\* getErrorMessage(error) for the errors a client method can catch
getErrorMessage(error) ==
    IF error.axios /\ error.kind = "status"
        THEN "HTTP 500: " \o error.message
    ELSE IF error.axios /\ error.kind = "network"
        THEN "Network error: No response received"
    ELSE IF error.message # "" THEN error.message ELSE "Unknown error"

\* The error axios rejects with for a failed exchange
AxiosError(http) ==
    [axios |-> TRUE, kind |-> http,
     message |-> IF http = "status" THEN "Internal Server Error" ELSE "Network Error"]

\* The TypeError of calling a method on undefined
TypeErrorReading(prop) ==
    [axios |-> FALSE, kind |-> "TypeError",
     message |-> "Cannot read properties of undefined (reading '" \o prop \o "')"]

-----------------------------------------------------------------------------
(* generateId and the identity defaults *)

\* The values generateId() can return
GeneratedIds == {"gen-A", "gen-B"}

\* `supplied ?? generateId()`: only an absent value is replaced
OrGenerateIdNullish(supplied, field, rnd, n) ==
    IF Present(supplied)
        THEN [value |-> supplied[1], n |-> n, log |-> <<>>]
        ELSE [value |-> rnd[n + 1], n |-> n + 1,
              log |-> <<[field |-> field, value |-> rnd[n + 1]]>>]

\* `supplied || generateId()`: rnd is the sequence of values the successive
\* generateId() calls of this request return, n the number already consumed.
\* The generator runs only when the supplied value is falsy.
OrGenerateId(supplied, field, rnd, n) ==
    IF TruthyStr(supplied)
        THEN [value |-> supplied[1], n |-> n, log |-> <<>>]
        ELSE [value |-> rnd[n + 1], n |-> n + 1,
              log |-> <<[field |-> field, value |-> rnd[n + 1]]>>]

\* One generateId() call hoisted and shared by the three fields
OneIdForAll(userId, sessionId, pageLoadId, rnd, n0) ==
    LET needed == ~TruthyStr(userId) \/ ~TruthyStr(sessionId) \/ ~TruthyStr(pageLoadId)
        g == IF needed THEN rnd[n0 + 1] ELSE ""
        pick(supplied) == IF TruthyStr(supplied) THEN supplied[1] ELSE g
    IN  [userId |-> pick(userId), sessionId |-> pick(sessionId),
         pageLoadId |-> pick(pageLoadId),
         n |-> IF needed THEN n0 + 1 ELSE n0,
         log |-> IF needed THEN <<[field |-> "id", value |-> g]>> ELSE <<>>]

\* The three identity defaults, evaluated in source order
ResolveIdentity(userId, sessionId, pageLoadId, rnd, n0) ==
    LET u == OrGenerateId(userId, "userId", rnd, n0)
        s == OrGenerateId(sessionId, "sessionId", rnd, u.n)
        p == OrGenerateId(pageLoadId, "pageLoadId", rnd, s.n)
    IN  [userId |-> u.value, sessionId |-> s.value, pageLoadId |-> p.value,
         n |-> p.n, log |-> u.log \o s.log \o p.log]

-----------------------------------------------------------------------------
(* URLSearchParams compilation *)

\* A filter loop that joins an array value into one entry
FilterJoined(prefix, obj) ==
    LET es == ObjectEntries(obj)
    IN  [i \in DOMAIN es |-> <<prefix \o es[i].k, join(es[i].v.vals, ",")>>]

\* The filter loop: Object.entries(obj).forEach(([key, value]) => ...), one
\* append per array element, or one append for a scalar
forEachFilter(prefix, obj) ==
    LET es == ObjectEntries(obj)
    IN  Concat([i \in DOMAIN es |->
            IF es[i].v.arr
                THEN [j \in DOMAIN es[i].v.vals |-> <<prefix \o es[i].k, es[i].v.vals[j]>>]
                ELSE << <<prefix \o es[i].k, es[i].v.vals[1]>> >>])

\* The sort loop: one sort.<key> append per property
forEachSort(obj) ==
    LET es == ObjectEntries(obj)
    IN  [i \in DOMAIN es |-> <<"sort." \o es[i].k, es[i].v>>]

\* A facet loop that joins the list into one entry
FacetsJoined(name, arr) == << <<name, join(arr, ",")>> >>

\* arr.forEach(facet => searchParams.append(name, facet))
forEachFacet(name, arr) == [i \in DOMAIN arr |-> <<name, arr[i]>>]

\* A CSV parameter emitted as repeated keys
CsvRepeated(name, arr) == [i \in DOMAIN arr |-> <<name, arr[i]>>]

\* searchParams.append(name, arr.join(","))
appendJoined(name, arr) == << <<name, join(arr, ",")>> >>

\* if (cond) { appends }
When(cond, entries) == IF cond THEN entries ELSE <<>>

\* The six unconditional appends that open buildSearchParams
requiredSearchKeys(siteId, params) ==
    << <<"siteId", USVString(siteId)>>,
       <<"resultsFormat", "json">>,
       <<"userId", USVString(params.userId)>>,
       <<"sessionId", USVString(params.sessionId)>>,
       <<"pageLoadId", USVString(params.pageLoadId)>>,
       <<"domain", USVString(params.domain)>> >>

\* The conditional appends of buildSearchParams, in source order
optionalSearchKeys(params) ==
    When(TruthyStr(params.query), << <<"q", params.query[1]>> >>)
    \o When(TruthyNum(params.page), << <<"page", ToString(params.page[1])>> >>)
    \o When(TruthyNum(params.resultsPerPage),
            << <<"resultsPerPage", ToString(params.resultsPerPage[1])>> >>)
    \o When(TruthyObj(params.filters), forEachFilter("filter.", params.filters[1]))
    \o When(TruthyObj(params.bgfilters), forEachFilter("bgfilter.", params.bgfilters[1]))
    \o When(TruthyObj(params.sort), forEachSort(params.sort[1]))
    \o When(TruthyStr(params.redirectResponse),
            << <<"redirectResponse", params.redirectResponse[1]>> >>)
    \o When(TruthyStr(params.landingPage), << <<"landing-page", params.landingPage[1]>> >>)
    \o When(TruthyStr(params.tag), << <<"tag", params.tag[1]>> >>)
    \o When(TruthyObj(params.includedFacets),
            forEachFacet("includedFacets", params.includedFacets[1]))
    \o When(TruthyObj(params.excludedFacets),
            forEachFacet("excludedFacets", params.excludedFacets[1]))
    \o When(TruthyBool(params.disableInlineBanners), << <<"disableInlineBanners", "true">> >>)
    \o When(TruthyObj(params.lastViewed), appendJoined("lastViewed", params.lastViewed[1]))
    \o When(TruthyObj(params.cart), appendJoined("cart", params.cart[1]))
    \o When(TruthyStr(params.shopper), << <<"shopper", params.shopper[1]>> >>)

\* A compiler that appends the optional keys before the required ones
OptionalKeysFirst(siteId, params) ==
    optionalSearchKeys(params) \o requiredSearchKeys(siteId, params)

buildSearchParams(siteId, params) ==
    requiredSearchKeys(siteId, params) \o optionalSearchKeys(params)

-----------------------------------------------------------------------------
(* Client methods.  Each returns what the call did:                        *)
(*   sp      the URLSearchParams it compiled                               *)
(*   out     the HTTP requests it issued                                   *)
(*   log     its generateId() invocations                                  *)
(*   threw   whether it ended by throwing, and text the Error message or   *)
(*           the text of the content it returned                           *)

HttpGet(client, path, sp) ==
    [client |-> client, method |-> "GET", path |-> path, query |-> sp, body |-> <<>>]

HttpPost(client, path, body) ==
    [client |-> client, method |-> "POST", path |-> path, query |-> <<>>, body |-> <<body>>]

\* The shared shape of a GET method: compile, issue the request, then return
\* the content or rethrow with the method's prefix
GetMethod(sp, log, path, http, title, errPrefix) ==
    [sp |-> sp, out |-> <<HttpGet("searchClient", path, sp)>>, log |-> log,
     threw |-> http # "ok",
     text |-> IF http = "ok" THEN title \o ":\n\n" \o ResponseData
              ELSE errPrefix \o getErrorMessage(AxiosError(http))]

ForQuery(params) ==
    IF TruthyStr(params.query) THEN " for \"" \o params.query[1] \o "\"" ELSE ""

\* The object search and autocomplete hand to buildSearchParams:
\* {...params, userId: .. || generateId(), ..., domain: .. || "https://example.com"}
WithIdentity(params, id) ==
    [params EXCEPT !.userId = Some(id.userId),
                   !.sessionId = Some(id.sessionId),
                   !.pageLoadId = Some(id.pageLoadId),
                   !.domain = Some(IF TruthyStr(params.domain) THEN params.domain[1]
                                   ELSE "https://example.com")]

search(cfg, params, rnd, http) ==
    LET id == ResolveIdentity(params.userId, params.sessionId, params.pageLoadId, rnd, 0)
        sp == buildSearchParams(cfg.siteId, WithIdentity(params, id))
    IN  GetMethod(sp, id.log, "/api/search/search.json", http,
                  "Search Results" \o ForQuery(params), "Search API error: ")

autocomplete(cfg, params, rnd, http) ==
    LET id == ResolveIdentity(params.userId, params.sessionId, params.pageLoadId, rnd, 0)
        sp == buildSearchParams(cfg.siteId, WithIdentity(params, id))
    IN  GetMethod(sp, id.log, "/api/search/autocomplete.json", http,
                  "Autocomplete results" \o ForQuery(params), "Autocomplete API error: ")

\* A finder that lets the caller's resultsPerPage through
FinderMerged(cfg, params, http) ==
    LET sp == << <<"siteId", USVString(cfg.siteId)>>,
                 <<"resultsPerPage",
                   IF Present(params.resultsPerPage)
                       THEN ToString(params.resultsPerPage[1]) ELSE "0">> >>
              \o When(TruthyObj(params.filters), forEachFilter("filter.", params.filters[1]))
              \o When(TruthyObj(params.bgfilters),
                      forEachFilter("bgfilter.", params.bgfilters[1]))
              \o When(TruthyObj(params.includedFacets),
                      forEachFacet("includedFacets", params.includedFacets[1]))
              \o When(TruthyObj(params.excludedFacets),
                      forEachFacet("excludedFacets", params.excludedFacets[1]))
    IN  GetMethod(sp, <<>>, "/api/search/finder.json", http,
                  "Finder API results (facets only)", "Finder API error: ")

finder(cfg, params, http) ==
    LET sp == << <<"siteId", USVString(cfg.siteId)>>,
                 <<"resultsPerPage", "0">> >>
              \o When(TruthyObj(params.filters), forEachFilter("filter.", params.filters[1]))
              \o When(TruthyObj(params.bgfilters),
                      forEachFilter("bgfilter.", params.bgfilters[1]))
              \o When(TruthyObj(params.includedFacets),
                      forEachFacet("includedFacets", params.includedFacets[1]))
              \o When(TruthyObj(params.excludedFacets),
                      forEachFacet("excludedFacets", params.excludedFacets[1]))
    IN  GetMethod(sp, <<>>, "/api/search/finder.json", http,
                  "Finder API results (facets only)", "Finder API error: ")

\* recommendations: params.tags.join(",") throws a TypeError when tags is
\* undefined, before anything is appended; the catch rethrows it with the
\* method's prefix.  Otherwise the query is compiled and requested through
\* a client created for the call.
recommendations(cfg, params, http) ==
    IF ~Present(params.tags)
        THEN [sp |-> <<>>, out |-> <<>>, log |-> <<>>, threw |-> TRUE,
              text |-> "Recommendations API error: "
                           \o getErrorMessage(TypeErrorReading("join"))]
    ELSE
    LET sp == appendJoined("tags", params.tags[1])
              \o When(TruthyObj(params.products), appendJoined("products", params.products[1]))
              \o When(TruthyObj(params.blockedItems),
                      appendJoined("blockedItems", params.blockedItems[1]))
              \o When(TruthyObj(params.categories),
                      appendJoined("categories", params.categories[1]))
              \o When(TruthyObj(params.brands), appendJoined("brands", params.brands[1]))
              \o When(TruthyStr(params.shopper), << <<"shopper", params.shopper[1]>> >>)
              \o When(TruthyObj(params.cart), appendJoined("cart", params.cart[1]))
              \o When(TruthyObj(params.lastViewed),
                      appendJoined("lastViewed", params.lastViewed[1]))
              \o When(TruthyObj(params.limits),
                      appendJoined("limits",
                          [i \in DOMAIN params.limits[1] |-> ToString(params.limits[1][i])]))
              \o When(TruthyObj(params.filters), forEachFilter("filter.", params.filters[1]))
    IN  [sp |-> sp,
         out |-> <<HttpGet("recClient", "/boost/" \o USVString(cfg.siteId) \o "/recommend", sp)>>,
         log |-> <<>>,
         threw |-> http # "ok",
         text |-> IF http = "ok"
                      THEN "Recommendations for tags [" \o join(params.tags[1], ", ")
                               \o "]:\n\n" \o ResponseData
                      ELSE "Recommendations API error: " \o getErrorMessage(AxiosError(http))]

\* trackIntelliSuggestEvent: the event id is generated first, then the three
\* identity defaults of params.context (params.context?.x is undefined when
\* context is)
trackIntelliSuggestEvent(cfg, params, rnd, http) ==
    LET ctx(f) == IF Present(params.context) THEN params.context[1][f] ELSE Undefined
        tc  == ctx("trackingCode")
        id  == ResolveIdentity(ctx("userId"), ctx("sessionId"), ctx("pageLoadId"), rnd, 1)
        eventPayload ==
            [type |-> params.type,
             category |-> "searchspring.recommendations.user-interactions",
             id |-> rnd[1],
             event |-> params.event,
             context |-> [trackingCode |-> IF TruthyStr(tc) THEN tc ELSE cfg.siteId,
                          userId |-> id.userId,
                          sessionId |-> id.sessionId,
                          pageLoadId |-> id.pageLoadId]]
    IN  [sp |-> <<>>,
         out |-> <<HttpPost("beaconClient", "/beacon", eventPayload)>>,
         log |-> <<[field |-> "id", value |-> rnd[1]]>> \o id.log,
         threw |-> http # "ok",
         text |-> IF http = "ok"
                      THEN "IntelliSuggest " \o params.type
                               \o " event tracked successfully:\n\n" \o ResponseData
                      ELSE "IntelliSuggest tracking error: "
                               \o getErrorMessage(AxiosError(http))]

-----------------------------------------------------------------------------
(* The requests the handler is given.  Arguments range over the declared   *)
(* parameter types; since the handler passes `args as any`, a required     *)
(* property may also be missing.                                           *)

StrVals == {"a", "b"}
FilterFields == {"brand", "10"}
SortFields == {"price", "name", "2"}
Directions == {"asc", "desc"}
FacetNames == {"size", "color"}
ProductIds == {"sku1", "sku2"}
Tags == {"similar", "cross-sell"}
LimitValues == {5, 10}
IdentityValues == {Undefined, Some(""), Some("caller-id")}

Optional(S) == {Undefined} \cup {Some(v) : v \in S}

Arrays(S) == SeqsUpTo(S, MaxLen)

\* string | string[]
FilterValues ==
    {[arr |-> FALSE, vals |-> <<v>>] : v \in StrVals}
        \cup {[arr |-> TRUE, vals |-> a] : a \in Arrays(StrVals)}

\* Objects with at most MaxEntries properties, as insertion-ordered sequences
\* of distinct keys
Objects(K, V) ==
    {obj \in SeqsUpTo([k : K, v : V], MaxEntries) :
        \A i, j \in DOMAIN obj : i # j => obj[i].k # obj[j].k}

FilterObjects == Objects(FilterFields, FilterValues)

SortObjects == Objects(SortFields, Directions)

\* A few filter objects, for the slices that vary something else
SomeFilterObjects ==
    { <<>>,
      <<[k |-> "brand", v |-> [arr |-> FALSE, vals |-> <<"a">>]]>>,
      <<[k |-> "brand", v |-> [arr |-> TRUE, vals |-> <<"a", "b">>]],
        [k |-> "10", v |-> [arr |-> TRUE, vals |-> <<>>]]>> }

SearchBase ==
    [query |-> Undefined, page |-> Undefined, resultsPerPage |-> Undefined,
     filters |-> Undefined, bgfilters |-> Undefined, sort |-> Undefined,
     userId |-> Some("caller-id"), sessionId |-> Some("caller-id"),
     pageLoadId |-> Some("caller-id"), domain |-> Some("https://shop.test"),
     redirectResponse |-> Undefined, landingPage |-> Undefined, tag |-> Undefined,
     includedFacets |-> Undefined, excludedFacets |-> Undefined,
     disableInlineBanners |-> Undefined, lastViewed |-> Undefined,
     cart |-> Undefined, shopper |-> Undefined]

\* SearchParams / AutocompleteParams
SearchArgs ==
    {[SearchBase EXCEPT !.filters = Some(f)] : f \in FilterObjects}
    \cup {[SearchBase EXCEPT !.bgfilters = Some(f)] : f \in FilterObjects}
    \cup {[SearchBase EXCEPT !.filters = f, !.bgfilters = g] :
            f, g \in Optional(SomeFilterObjects)}
    \cup {[SearchBase EXCEPT !.sort = Some(o), !.filters = f] :
            o \in SortObjects, f \in {Undefined, Some(<<>>)}}
    \cup {[SearchBase EXCEPT !.includedFacets = i, !.excludedFacets = e] :
            i, e \in Optional(Arrays(FacetNames))}
    \cup {[SearchBase EXCEPT !.lastViewed = l, !.cart = c] :
            l, c \in Optional(Arrays(ProductIds))}
    \cup {[SearchBase EXCEPT !.userId = u, !.sessionId = s, !.pageLoadId = p, !.domain = d] :
            u, s, p \in IdentityValues,
            d \in {Undefined, Some(""), Some("https://shop.test")}}
    \cup {[SearchBase EXCEPT
              !.query = q, !.page = pg, !.resultsPerPage = rpp, !.redirectResponse = rr,
              !.landingPage = lp, !.tag = tg, !.disableInlineBanners = dib, !.shopper = sh,
              !.filters = IF all THEN Some(<<[k |-> "brand", v |-> [arr |-> FALSE, vals |-> <<"a">>]]>>) ELSE Undefined,
              !.bgfilters = IF all THEN Some(<<[k |-> "10", v |-> [arr |-> TRUE, vals |-> <<"a", "b">>]]>>) ELSE Undefined,
              !.sort = IF all THEN Some(<<[k |-> "price", v |-> "asc"]>>) ELSE Undefined,
              !.includedFacets = IF all THEN Some(<<"size">>) ELSE Undefined,
              !.excludedFacets = IF all THEN Some(<<"color">>) ELSE Undefined,
              !.lastViewed = IF all THEN Some(<<"sku1">>) ELSE Undefined,
              !.cart = IF all THEN Some(<<"sku1", "sku2">>) ELSE Undefined] :
            q \in {Undefined, Some(""), Some("shoes")},
            pg \in {Undefined, Some(0), Some(2)},
            rpp \in Optional({24}),
            rr \in Optional({"minimal"}),
            lp \in Optional({"sale"}),
            tg \in Optional({"promo"}),
            dib \in Optional(BOOLEAN),
            sh \in Optional({"shopper-1"}),
            all \in BOOLEAN}

\* FinderParams as the caller sends them (resultsPerPage is the caller's)
FinderArgs ==
    {[resultsPerPage |-> rpp, filters |-> f, bgfilters |-> Undefined,
      includedFacets |-> Undefined, excludedFacets |-> Undefined] :
        rpp \in Optional({0, 24}), f \in Optional(FilterObjects)}
    \cup {[resultsPerPage |-> rpp, filters |-> f, bgfilters |-> g,
           includedFacets |-> i, excludedFacets |-> e] :
        rpp \in Optional({0, 24}), f, g \in Optional(SomeFilterObjects),
        i, e \in Optional({<<>>, <<"size", "color">>})}
    \cup {[resultsPerPage |-> rpp, filters |-> Undefined, bgfilters |-> Undefined,
           includedFacets |-> i, excludedFacets |-> e] :
        rpp \in Optional({24}), i, e \in Optional(Arrays(FacetNames))}

RecommendationBase ==
    [tags |-> Some(<<"similar">>), products |-> Undefined, blockedItems |-> Undefined,
     categories |-> Undefined, brands |-> Undefined, shopper |-> Undefined,
     cart |-> Undefined, lastViewed |-> Undefined, limits |-> Undefined,
     filters |-> Undefined]

\* RecommendationParams
RecommendationArgs ==
    {[RecommendationBase EXCEPT !.tags = t, !.limits = l] :
        t \in Optional(Arrays(Tags)), l \in Optional(Arrays(LimitValues))}
    \cup {[RecommendationBase EXCEPT !.tags = t, ![f] = a] :
        t \in {Undefined, Some(<<>>), Some(<<"similar">>)},
        f \in {"products", "blockedItems", "cart", "lastViewed"},
        a \in Optional(Arrays(ProductIds))}
    \cup {[RecommendationBase EXCEPT !.categories = c, !.brands = b, !.shopper = sh] :
        c, b \in Optional(Arrays(StrVals)), sh \in {Undefined, Some(""), Some("shopper-1")}}
    \cup {[RecommendationBase EXCEPT !.filters = Some(f)] : f \in FilterObjects}

\* IntelliSuggestTrackingParams; context.website.trackingCode is kept as
\* context.trackingCode
TrackArgs ==
    {[type |-> t, event |-> [sku |-> "sku1"], context |-> c] :
        t \in {"product", "cart"},
        c \in {Undefined} \cup
              {Some([trackingCode |-> tc, userId |-> u, sessionId |-> s, pageLoadId |-> p]) :
                  tc \in Optional({"site-9"}), u, s, p \in IdentityValues}}

Requests ==
    {[name |-> n, arguments |-> a] :
        n \in {"searchspring_search", "searchspring_autocomplete"}, a \in SearchArgs}
    \cup {[name |-> "searchspring_finder", arguments |-> a] : a \in FinderArgs}
    \cup {[name |-> "searchspring_recommendations", arguments |-> a] : a \in RecommendationArgs}
    \cup {[name |-> "searchspring_intellisuggest_track", arguments |-> a] : a \in TrackArgs}
    \cup {[name |-> "searchspring_no_such_tool", arguments |-> SearchBase]}

NoRequest == [name |-> "", arguments |-> <<>>]

\* The configurations validateConfig can return: siteId and secretKey are
\* optional, timeout defaults to 10000
Configs ==
    {[siteId |-> sid, secretKey |-> Undefined, timeout |-> 10000] :
        sid \in Optional({"abc123"})}

-----------------------------------------------------------------------------
(* The CallTool handler *)

\* How many generateId() results a call consumes
Falsy(opts) == Cardinality({i \in DOMAIN opts : ~TruthyStr(opts[i])})

DrawsFor(req) ==
    LET a == req.arguments
    IN  IF req.name \in {"searchspring_search", "searchspring_autocomplete"}
            THEN Falsy(<<a.userId, a.sessionId, a.pageLoadId>>)
        ELSE IF req.name = "searchspring_intellisuggest_track"
            THEN IF Present(a.context)
                     THEN 1 + Falsy(<<a.context[1].userId, a.context[1].sessionId,
                                      a.context[1].pageLoadId>>)
                     ELSE 4
        ELSE 0

\* A return after a method that wrote the identity default it generated
\* into the object it was given
ReturnStoringDefaults(r) ==
    /\ pc' = "done"
    /\ searchParams' = r.sp
    /\ outbound' = r.out
    /\ idLog' = r.log
    /\ response' = Some(IF r.threw THEN [isError |-> TRUE, text |-> "Error: " \o r.text]
                                   ELSE [isError |-> FALSE, text |-> r.text])
    /\ request' = IF r.log # <<>> /\ "userId" \in DOMAIN request.arguments
                      THEN [request EXCEPT !.arguments.userId = Some(r.log[1].value)]
                      ELSE request
    /\ UNCHANGED <<config, env, generated, report, startupError>>

\* The handler's return: the method's content, or its catch block's
\* { content: [{type: "text", text: `Error: ${message}`}], isError: true }
Return(r) ==
    /\ pc' = "done"
    /\ searchParams' = r.sp
    /\ outbound' = r.out
    /\ idLog' = r.log
    /\ response' = Some(IF r.threw THEN [isError |-> TRUE, text |-> "Error: " \o r.text]
                                   ELSE [isError |-> FALSE, text |-> r.text])
    /\ UNCHANGED <<config, request, env, generated, report, startupError>>

Init ==
    /\ config \in Configs
    /\ env = [SEARCHSPRING_SITE_ID |-> config.siteId,
              SEARCHSPRING_SECRET_KEY |-> Undefined,
              SEARCHSPRING_TIMEOUT |-> Undefined]
    /\ generated = Undefined
    /\ report = Undefined
    /\ startupError = Undefined
    /\ pc = "idle"
    /\ request = NoRequest
    /\ searchParams = <<>>
    /\ outbound = <<>>
    /\ idLog = <<>>
    /\ response = Undefined

\* A CallTool request arrives
Receive ==
    /\ pc = "idle"
    /\ \E req \in Requests : request' = req
    /\ pc' = "pending"
    /\ UNCHANGED <<config, searchParams, outbound, idLog, response,
                   env, generated, report, startupError>>

CallSearch ==
    /\ pc = "pending"
    /\ request.name = "searchspring_search"
    /\ \E rnd \in [1..DrawsFor(request) -> GeneratedIds], http \in HttpOutcomes :
           Return(search(config, request.arguments, rnd, http))

CallAutocomplete ==
    /\ pc = "pending"
    /\ request.name = "searchspring_autocomplete"
    /\ \E rnd \in [1..DrawsFor(request) -> GeneratedIds], http \in HttpOutcomes :
           Return(autocomplete(config, request.arguments, rnd, http))

\* { resultsPerPage: 0, ...args }: the caller's property, when there is one,
\* replaces the default
finderArguments(args) ==
    [args EXCEPT !.resultsPerPage = IF Present(@) THEN @ ELSE Some(0)]

CallFinder ==
    /\ pc = "pending"
    /\ request.name = "searchspring_finder"
    /\ \E http \in HttpOutcomes :
           Return(finder(config, finderArguments(request.arguments), http))

CallRecommendations ==
    /\ pc = "pending"
    /\ request.name = "searchspring_recommendations"
    /\ \E http \in HttpOutcomes :
           Return(recommendations(config, request.arguments, http))

CallIntelliSuggestTrack ==
    /\ pc = "pending"
    /\ request.name = "searchspring_intellisuggest_track"
    /\ \E rnd \in [1..DrawsFor(request) -> GeneratedIds], http \in HttpOutcomes :
           Return(trackIntelliSuggestEvent(config, request.arguments, rnd, http))

\* The cases of the handler's switch: the method of searchspringClient each
\* tool name is dispatched to
methodOf ==
    [searchspring_search |-> "search",
     searchspring_autocomplete |-> "autocomplete",
     searchspring_suggest |-> "suggest",
     searchspring_trending |-> "trending",
     searchspring_finder |-> "finder",
     searchspring_recommendations |-> "recommendations",
     searchspring_beacon_track |-> "trackEvent",
     searchspring_bulk_index |-> "bulkIndex",
     searchspring_bulk_index_status |-> "getBulkIndexStatus",
     searchspring_intellisuggest_track |-> "trackIntelliSuggestEvent",
     searchspring_search_result_click |-> "trackSearchResultClick",
     searchspring_platform_implementation |-> "getPlatformImplementation",
     searchspring_code_validator |-> "validateCode"]

\* default: throw new Error(`Unknown tool: ${name}`)
KnownTools == DOMAIN methodOf

CallUnknown ==
    /\ pc = "pending"
    /\ request.name \notin KnownTools
    /\ Return([sp |-> <<>>, out |-> <<>>, log |-> <<>>, threw |-> TRUE,
               text |-> "Unknown tool: " \o request.name])

\* The response is sent; the call's objects are discarded
Respond ==
    /\ pc = "done"
    /\ pc' = "idle"
    /\ request' = NoRequest
    /\ searchParams' = <<>>
    /\ outbound' = <<>>
    /\ idLog' = <<>>
    /\ response' = Undefined
    /\ report' = Undefined
    /\ UNCHANGED <<config, env, generated, startupError>>

Next ==
    \/ Receive
    \/ CallSearch
    \/ CallAutocomplete
    \/ CallFinder
    \/ CallRecommendations
    \/ CallIntelliSuggestTrack
    \/ CallUnknown
    \/ Respond

Spec == Init /\ [][Next]_vars

-----------------------------------------------------------------------------
(* Properties *)

args == request.arguments

Done(names) == pc = "done" /\ request.name \in names

\* The call compiled a query and sent it
Compiled(names) == Done(names) /\ outbound # <<>>

SearchTools == {"searchspring_search", "searchspring_autocomplete"}
FinderTool == {"searchspring_finder"}
RecommendationTool == {"searchspring_recommendations"}
TrackTool == {"searchspring_intellisuggest_track"}

\* The values a filter property stands for: the one string, or the array's
FilterValuesOf(obj, k) ==
    LET hits == SelectSeq(obj, LAMBDA e : e.k = k)
    IN  IF hits = <<>> THEN <<>> ELSE hits[1].v.vals

\* For every field, the entries named prefix.field carry exactly the values
\* of that field in the mapping, in order (none when the mapping or the
\* field is absent)
OnePerValue(prefix, mapping) ==
    \A k \in FilterFields :
        ValuesOf(searchParams, prefix \o k) =
            IF Present(mapping) THEN FilterValuesOf(mapping[1], k) ELSE <<>>

\* C1: every filters / bgfilters field emits one filter.X / bgfilter.X entry
\* per value: one for a scalar, one per element for an array, in array order,
\* never a comma-joined entry.
C1_FiltersRepeatKeys ==
    /\ Compiled(SearchTools \cup FinderTool) =>
           OnePerValue("filter.", args.filters) /\ OnePerValue("bgfilter.", args.bgfilters)
    /\ Compiled(RecommendationTool) => OnePerValue("filter.", args.filters)

C1_Witness ==
    /\ Compiled(FinderTool)
    /\ Present(args.filters)
    /\ \E e \in Range(args.filters[1]) : e.v.arr /\ e.v.vals = <<"a", "b">>
    /\ \E e \in Range(args.filters[1]) : ~e.v.arr
    /\ ValuesOf(searchParams, "filter.brand") = <<"a", "b">>

\* The CSV-contract fields each operation takes
CsvFields(name) ==
    IF name \in SearchTools THEN {"lastViewed", "cart"}
    ELSE IF name \in RecommendationTool
        THEN {"tags", "products", "blockedItems", "categories", "brands",
              "cart", "lastViewed", "limits"}
    ELSE {}

\* C2: a CSV-contract field supplied as an empty array leaves no entry with
\* that key in the compiled query.
C2_EmptyCsvOmitted ==
    Compiled(SearchTools \cup RecommendationTool) =>
        \A f \in CsvFields(request.name) :
            (Present(args[f]) /\ Len(args[f][1]) = 0) => ValuesOf(searchParams, f) = <<>>

\* C3: a recommendations call whose tags are missing or empty fails with an
\* InvalidParameter error naming tags, and compiles and sends nothing.
C3_TagsRequired ==
    (Done(RecommendationTool) /\ (~Present(args.tags) \/ Len(args.tags[1]) = 0)) =>
        /\ response[1].isError
        /\ Includes(response[1].text, "InvalidParameter")
        /\ Includes(response[1].text, "tags")
        /\ searchParams = <<>>
        /\ outbound = <<>>

IdentityFields == {"userId", "sessionId", "pageLoadId"}

\* What the caller supplied for an identity field
Supplied(f) ==
    IF request.name \in TrackTool
        THEN IF Present(args.context) THEN args.context[1][f] ELSE Undefined
        ELSE args[f]

\* The values of the slots of the compiled output that carry an identity field
Slots(f) ==
    IF request.name \in TrackTool
        THEN [i \in DOMAIN outbound |-> outbound[i].body[1].context[f]]
        ELSE ValuesOf(searchParams, f)

\* The generateId() results of the call made for field f
GeneratedFor(f) ==
    LET hits == SelectSeq(idLog, LAMBDA g : g.field = f)
    IN  [i \in DOMAIN hits |-> hits[i].value]

IdentityTools == SearchTools \cup TrackTool

\* C5: with no identity supplied, each of userId, sessionId and pageLoadId is
\* generated exactly once in the call, and every slot carrying the field shows
\* that one value.
C5_IdentitySynthesizedOnce ==
    (Done(IdentityTools) /\ \A f \in IdentityFields : ~Present(Supplied(f))) =>
        \A f \in IdentityFields :
            /\ Len(GeneratedFor(f)) = 1
            /\ Slots(f) # <<>>
            /\ \A i \in DOMAIN Slots(f) : Slots(f)[i] = GeneratedFor(f)[1]

C5_Witness ==
    /\ Done(SearchTools)
    /\ \A f \in IdentityFields : ~Present(Supplied(f))
    /\ GeneratedFor("userId") # GeneratedFor("sessionId")
    /\ ValuesOf(searchParams, "userId") = GeneratedFor("userId")

\* C6 as stated: a supplied identity value is emitted as supplied and the
\* generator is not run for it; it runs only for the absent fields.
C6_SuppliedIdentityKept ==
    Done(IdentityTools) =>
        \A f \in IdentityFields :
            IF Present(Supplied(f))
                THEN /\ GeneratedFor(f) = <<>>
                     /\ \A i \in DOMAIN Slots(f) : Slots(f)[i] = Supplied(f)[1]
                ELSE Len(GeneratedFor(f)) = 1

\* C6, amended: a supplied non-empty identity value is emitted as supplied
\* and the generator is not run for it; for a field that is absent or the
\* empty string the generator runs once and its value is emitted.
C6_NonEmptyIdentityKept ==
    Done(IdentityTools) =>
        \A f \in IdentityFields :
            /\ Slots(f) # <<>>
            /\ IF TruthyStr(Supplied(f))
                   THEN /\ GeneratedFor(f) = <<>>
                        /\ \A i \in DOMAIN Slots(f) : Slots(f)[i] = Supplied(f)[1]
                   ELSE /\ Len(GeneratedFor(f)) = 1
                        /\ \A i \in DOMAIN Slots(f) : Slots(f)[i] = GeneratedFor(f)[1]

C6_Witness ==
    /\ Done(SearchTools)
    /\ Supplied("userId") = Some("caller-id")
    /\ Supplied("sessionId") = Some("")
    /\ ~Present(Supplied("pageLoadId"))
    /\ ValuesOf(searchParams, "userId") = <<"caller-id">>
    /\ ValuesOf(searchParams, "sessionId") = GeneratedFor("sessionId")
    /\ Len(idLog) = 2

FacetFields == {"includedFacets", "excludedFacets"}

\* C7: includedFacets and excludedFacets emit one entry per element under
\* the repeated key, in array order, never one comma-joined value.
C7_FacetsRepeatKeys ==
    Compiled(SearchTools \cup FinderTool) =>
        \A f \in FacetFields :
            ValuesOf(searchParams, f) = IF Present(args[f]) THEN args[f][1] ELSE <<>>

C7_Witness ==
    /\ Compiled(SearchTools)
    /\ args.includedFacets = Some(<<"size", "color">>)
    /\ ValuesOf(searchParams, "includedFacets") = <<"size", "color">>

\* The text of one array element in a query value
ElementText(f, x) == IF f = "limits" THEN ToString(x) ELSE x

\* v is the elements of arr separated by commas, read from the right
RECURSIVE IsCommaJoin(_, _, _)
IsCommaJoin(v, f, arr) ==
    LET last == ElementText(f, arr[Len(arr)])
    IN  IF Len(arr) = 1 THEN v = last
        ELSE /\ Len(v) > Len(last)
             /\ SubSeq(v, Len(v) - Len(last), Len(v)) = "," \o last
             /\ IsCommaJoin(SubSeq(v, 1, Len(v) - Len(last) - 1), f,
                            SubSeq(arr, 1, Len(arr) - 1))

\* C8: a CSV-contract field supplied as a non-empty array emits exactly one
\* entry with that key, whose value is the elements joined with commas in
\* input order.
C8_CsvJoined ==
    Compiled(SearchTools \cup RecommendationTool) =>
        \A f \in CsvFields(request.name) :
            (Present(args[f]) /\ Len(args[f][1]) > 0) =>
                /\ Len(ValuesOf(searchParams, f)) = 1
                /\ IsCommaJoin(ValuesOf(searchParams, f)[1], f, args[f][1])

C8_Witness ==
    /\ Compiled(RecommendationTool)
    /\ args.tags = Some(<<"similar", "cross-sell">>)
    /\ args.limits = Some(<<5, 10>>)
    /\ ValuesOf(searchParams, "tags") = <<"similar,cross-sell">>
    /\ ValuesOf(searchParams, "limits") = <<"5,10">>

\* C9: the sort mapping emits one sort.<field>=<direction> entry per
\* property, in the insertion order of the mapping, each direction asc or
\* desc.
C9_SortInInsertionOrder ==
    (Compiled(SearchTools) /\ Present(args.sort)) =>
        /\ SelectSeq(searchParams, LAMBDA e : StartsWith(e[1], "sort."))
               = [i \in DOMAIN args.sort[1] |->
                     <<"sort." \o args.sort[1][i].k, args.sort[1][i].v>>]
        /\ \A e \in Range(searchParams) :
               StartsWith(e[1], "sort.") => e[2] \in {"asc", "desc"}

RequiredSearchKeys ==
    <<"siteId", "resultsFormat", "userId", "sessionId", "pageLoadId", "domain">>

\* C10: a search or autocomplete query opens with siteId, resultsFormat=json,
\* userId, sessionId, pageLoadId, domain, each occurring exactly once; a
\* finder query opens with siteId then resultsPerPage.
C10_RequiredKeysFirst ==
    /\ Done(SearchTools) =>
           /\ Len(searchParams) >= Len(RequiredSearchKeys)
           /\ SubSeq(Keys(searchParams), 1, Len(RequiredSearchKeys)) = RequiredSearchKeys
           /\ searchParams[2][2] = "json"
           /\ \A k \in Range(RequiredSearchKeys) : Len(ValuesOf(searchParams, k)) = 1
    /\ Done(FinderTool) =>
           /\ Len(searchParams) >= 2
           /\ SubSeq(Keys(searchParams), 1, 2) = <<"siteId", "resultsPerPage">>

C10_Witness ==
    /\ Done(SearchTools)
    /\ TruthyStr(args.query) /\ TruthyNum(args.page) /\ Present(args.filters)
    /\ Present(args.cart) /\ TruthyStr(args.shopper)
    /\ Len(searchParams) > Len(RequiredSearchKeys) + 5
    /\ searchParams[1][1] = "siteId"

-----------------------------------------------------------------------------
(* generateId: 'xxxxxxxx-xxxx-4xxx-yxxx-xxxxxxxxxxxx'.replace(/[xy]/g, f) *)

IdTemplate == "xxxxxxxx-xxxx-4xxx-yxxx-xxxxxxxxxxxx"

\* Math.random() * 16 | 0 is one of 0 .. HexRadix - 1
HexRadix == 16

\* v.toString(16) for v in 0 .. 15
toString16(v) == SubSeq("0123456789abcdef", v + 1, v + 1)

\* How many characters of the template the callback is invoked for
Placeholders(t) ==
    Cardinality({i \in 1..Len(t) : SubSeq(t, i, i) \in {"x", "y"}})

\* The callback without the variant bits: every placeholder yields r itself
NibbleUnmasked(c, r) == r

\* c == 'x' ? r : (r & 0x3 | 0x8): the low two bits of r under the bit 8
Nibble(c, r) == IF c = "x" THEN r ELSE (r % 4) + 8

\* String.replace with a global pattern: the template is scanned left to
\* right, every x or y is replaced by the callback's result for the next
\* Math.random() draw, every other character is copied
RECURSIVE replace(_, _, _)
replace(t, draws, n) ==
    IF t = "" THEN ""
    ELSE LET c == SubSeq(t, 1, 1)
             rest == SubSeq(t, 2, Len(t))
         IN  IF c \in {"x", "y"}
                 THEN toString16(Nibble(c, draws[n])) \o replace(rest, draws, n + 1)
                 ELSE c \o replace(rest, draws, n)

generateId(draws) == replace(IdTemplate, draws, 1)

\* The sequences of Math.random() draws of one call: the draw for the first
\* placeholder is any value, and so is the step from one draw to the next,
\* so every placeholder sees every value of 0 .. 15
DrawStreams ==
    {[i \in 1..Placeholders(IdTemplate) |-> (first + (i - 1) * step) % HexRadix] :
        first \in 0..(HexRadix - 1), step \in 0..(HexRadix - 1)}

CallGenerateId ==
    /\ \E draws \in DrawStreams : generated' = Some(generateId(draws))
    /\ UNCHANGED <<config, pc, request, searchParams, outbound, idLog, response,
                   env, report, startupError>>

\* A process that only calls generateId
SpecGenerateId == Init /\ [][CallGenerateId]_vars

CharAt(text, i) == SubSeq(text, i, i)

HyphenPositions == {9, 14, 19, 24}

IsLowerHex(c) == \E v \in 0..15 : c = SubSeq("0123456789abcdef", v + 1, v + 1)

\* C11: whatever the draws, generateId returns 36 characters in the
\* 8-4-4-4-12 layout: hyphens at positions 9, 14, 19 and 24, lowercase
\* hexadecimal digits elsewhere, "4" as the first character of the third
\* group and one of 8, 9, a, b as the first character of the fourth
C11_GeneratedIdLayout ==
    Present(generated) =>
        LET id == generated[1]
        IN  /\ Len(id) = 36
            /\ \A i \in 1..36 :
                   IF i \in HyphenPositions THEN CharAt(id, i) = "-"
                                            ELSE IsLowerHex(CharAt(id, i))
            /\ CharAt(id, 15) = "4"
            /\ CharAt(id, 20) \in {"8", "9", "a", "b"}

\* An identifier that starts with the digit of draw 0 and whose variant
\* character is b: the draw at the y placeholder was 3, 7, 11 or 15
C11_Witness ==
    /\ Present(generated)
    /\ CharAt(generated[1], 1) = "0"
    /\ CharAt(generated[1], 20) = "b"

-----------------------------------------------------------------------------
(* validateCode: the findings                                              *)
(*                                                                          *)
(* The source marks a finding with a pictograph; the model writes the mark  *)
(* in ASCII: "[x]" for the cross mark (an error), "[ok]" for the check mark *)
(* (a positive finding), "[!]" for the warning sign followed by its two     *)
(* spaces, "[i]" for the light bulb (a suggestion).                         *)

Mark == [cross |-> "[x]", check |-> "[ok]", warn |-> "[!] ", bulb |-> "[i]"]

CodeTypes ==
    {"search", "autocomplete", "suggest", "trending", "recommendations", "finder",
     "beacon", "bulk-index", "tracking"}

Platforms == {"shopify", "bigcommerce", "magento2", "custom", "other"}

\* if (cond) { arr.push(finding) }
PushIf(cond, finding) == IF cond THEN <<finding>> ELSE <<>>

\* if (cond) { arr.push(missing) } else { arr.push(detected) }
PushEither(cond, missing, detected) == <<IF cond THEN missing ELSE detected>>

\* The findings validateCode can push, by the check that pushes them
Finding ==
    [ScriptMissing |->
         Mark.cross \o " Missing IntelliSuggest script: <script src='//cdn.searchspring.net/intellisuggest/is.min.js'></script>",
     ScriptDetected |->
         Mark.check \o " IntelliSuggest script inclusion detected",
     TrackingMissing |->
         Mark.cross \o " No tracking calls found (ss.track.product.view, ss.track.cart.add, ss.track.purchase.buy)",
     TrackingDetected |->
         Mark.check \o " Tracking calls detected",
     SafetyWarning |->
         Mark.warn \o " Consider adding safety check: if (typeof ss != 'undefined')",
     ProductError |->
         Mark.cross \o " Product tracking missing required 'sku' field",
     CartError |->
         Mark.cross \o " Cart tracking missing required 'sku' and/or 'quantity' fields",
     PurchaseError |->
         Mark.cross \o " Purchase tracking missing required 'sku' and/or 'quantity' fields",
     EndpointMissing |->
         Mark.cross \o " Missing Searchspring API endpoint (should include .a.searchspring.io)",
     EndpointDetected |->
         Mark.check \o " Searchspring API endpoint detected",
     SiteIdMissing |->
         Mark.cross \o " Missing required 'siteId' parameter",
     SiteIdDetected |->
         Mark.check \o " siteId parameter detected",
     IdentityWarning |->
         Mark.warn \o " Missing tracking parameters (userId, sessionId) - these are required for analytics",
     QueryError |->
         Mark.cross \o " Search API missing query parameter 'q'",
     DebounceWarning |->
         Mark.warn \o " Consider implementing debouncing for autocomplete to reduce API calls",
     PageLoadIdWarning |->
         Mark.warn \o " Recommendations work better with pageLoadId parameter",
     ErrorHandlingWarning |->
         Mark.warn \o " No error handling detected - consider adding .catch() or try/catch",
     BeaconEndpointMissing |->
         Mark.cross \o " Missing Beacon API endpoint (should be beacon.searchspring.io)",
     BeaconEndpointDetected |->
         Mark.check \o " Beacon API endpoint detected",
     PostError |->
         Mark.cross \o " Beacon API requires POST method",
     TypeFieldError |->
         Mark.cross \o " Beacon tracking missing required 'type' field",
     BulkEndpointMissing |->
         Mark.cross \o " Missing Bulk Index API endpoint (should be index-api.searchspring.net)",
     BulkEndpointDetected |->
         Mark.check \o " Bulk Index API endpoint detected",
     SecretKeyError |->
         Mark.cross \o " Bulk Index API requires 'secretKey' parameter",
     ProductsError |->
         Mark.cross \o " Bulk Index API missing 'products' array",
     LiquidWarning |->
         Mark.warn \o " No Liquid template variables detected - make sure you're using Shopify's template syntax",
     VariantSuggestion |->
         Mark.bulb \o " Consider using product.selected_or_first_available_variant.sku for better variant handling",
     PhpWarning |->
         Mark.warn \o " No PHP template syntax detected - make sure you're using Magento's .phtml syntax"]

\* The cart check with both fields required to be absent
CartCheckBothAbsent(code) ==
    PushIf(Includes(code, "ss.track.cart")
               /\ (~Includes(code, "sku") /\ ~Includes(code, "quantity")),
           Finding.CartError)

cartCheck(code) ==
    PushIf(Includes(code, "ss.track.cart")
               /\ (~Includes(code, "sku") \/ ~Includes(code, "quantity")),
           Finding.CartError)

\* The tracking checks as an else-if chain: the first error ends the battery
TrackingResultsChained(code) ==
    IF ~Includes(code, "cdn.searchspring.net/intellisuggest") /\ ~Includes(code, "is.min.js")
        THEN <<Finding.ScriptMissing>>
    ELSE IF ~Includes(code, "ss.track")
        THEN <<Finding.ScriptDetected, Finding.TrackingMissing>>
    ELSE <<Finding.ScriptDetected, Finding.TrackingDetected>> \o cartCheck(code)

\* codeType tracking or beacon: what the block pushes to validationResults
trackingResults(code) ==
    PushEither(~Includes(code, "cdn.searchspring.net/intellisuggest")
                   /\ ~Includes(code, "is.min.js"),
               Finding.ScriptMissing, Finding.ScriptDetected)
    \o PushEither(~Includes(code, "ss.track"), Finding.TrackingMissing, Finding.TrackingDetected)
    \o PushIf(Includes(code, "ss.track.product") /\ ~Includes(code, "sku"), Finding.ProductError)
    \o cartCheck(code)
    \o PushIf(Includes(code, "ss.track.purchase")
                  /\ (~Includes(code, "sku") \/ ~Includes(code, "quantity")),
              Finding.PurchaseError)

ReadApis == {"search", "autocomplete", "suggest", "trending", "finder", "recommendations"}

\* The endpoint check reporting the endpoint as detected when it is absent
EndpointCheckInverted(code) ==
    PushEither(Includes(code, ".a.searchspring.io"), Finding.EndpointMissing, Finding.EndpointDetected)

endpointCheck(code) ==
    PushEither(~Includes(code, ".a.searchspring.io"), Finding.EndpointMissing, Finding.EndpointDetected)

\* codeType one of the six read APIs
readApiResults(code, codeType) ==
    endpointCheck(code)
    \o PushEither(~Includes(code, "siteId"), Finding.SiteIdMissing, Finding.SiteIdDetected)
    \o PushIf(codeType = "search" /\ ~Includes(code, "q="), Finding.QueryError)

readApiWarnings(code, codeType) ==
    PushIf(~Includes(code, "userId") /\ ~Includes(code, "sessionId"), Finding.IdentityWarning)
    \o PushIf(codeType = "autocomplete" /\ ~Includes(code, "debounce"), Finding.DebounceWarning)
    \o PushIf(codeType = "recommendations" /\ ~Includes(code, "pageLoadId"),
              Finding.PageLoadIdWarning)
    \o PushIf(~Includes(code, ".catch") /\ ~Includes(code, "try"), Finding.ErrorHandlingWarning)

beaconResults(code) ==
    PushEither(~Includes(code, "beacon.searchspring.io"),
               Finding.BeaconEndpointMissing, Finding.BeaconEndpointDetected)
    \o PushIf(~Includes(code, "POST"), Finding.PostError)
    \o PushIf(~Includes(code, "type"), Finding.TypeFieldError)

bulkIndexResults(code) ==
    PushEither(~Includes(code, "index-api.searchspring.net"),
               Finding.BulkEndpointMissing, Finding.BulkEndpointDetected)
    \o PushIf(~Includes(code, "secretKey"), Finding.SecretKeyError)
    \o PushIf(~Includes(code, "products"), Finding.ProductsError)

\* The template checks applied whatever the codeType
PlatformWarningsAnyCodeType(code, codeType, platform) ==
    PushIf(platform = Some("shopify") /\ ~Includes(code, "{{"), Finding.LiquidWarning)
    \o PushIf(platform = Some("magento2") /\ ~Includes(code, "<?="), Finding.PhpWarning)

platformWarnings(code, codeType, platform) ==
    PushIf(platform = Some("shopify") /\ codeType = "tracking" /\ ~Includes(code, "{{"),
           Finding.LiquidWarning)
    \o PushIf(platform = Some("magento2") /\ codeType = "tracking"
                  /\ ~Includes(code, "<?="),
              Finding.PhpWarning)

platformSuggestions(code, platform) ==
    PushIf(platform = Some("shopify")
               /\ Includes(code, "product.variants.first.sku")
               /\ ~Includes(code, "product.selected_or_first_available_variant.sku"),
           Finding.VariantSuggestion)

-----------------------------------------------------------------------------
(* validateCode: troubleshooting and the report                            *)
(*                                                                          *)
(* A multi-line text is the sequence of its lines (the text is the lines    *)
(* joined by "\n"), so "" is <<"">> and "a\n" is <<"a", "">>.               *)

\* a + b for two texts: the last line of a continues with the first of b
Cat(a, b) == SubSeq(a, 1, Len(a) - 1) \o <<a[Len(a)] \o b[1]>> \o Tail(b)

RECURSIVE CatAll(_)
CatAll(texts) == IF Len(texts) = 1 THEN texts[1] ELSE Cat(texts[1], CatAll(Tail(texts)))

\* arr.join('\n') over one-line strings
JoinLines(arr) == IF arr = <<>> THEN <<"">> ELSE arr

\* The character at the place c has in `from`, taken from `to`; c itself
\* when `from` does not hold it
MapChar(c, from, to) ==
    LET at == {i \in 1..Len(from) : SubSeq(from, i, i) = c}
    IN  IF at = {} THEN c ELSE LET i == CHOOSE i \in at : TRUE IN SubSeq(to, i, i)

RECURSIVE MapChars(_, _, _)
MapChars(s, from, to) ==
    IF s = "" THEN ""
    ELSE MapChar(SubSeq(s, 1, 1), from, to) \o MapChars(SubSeq(s, 2, Len(s)), from, to)

toLowerCase(s) == MapChars(s, "ABCDEFGHIJKLMNOPQRSTUVWXYZ", "abcdefghijklmnopqrstuvwxyz")

toUpperCase(s) == MapChars(s, "abcdefghijklmnopqrstuvwxyz", "ABCDEFGHIJKLMNOPQRSTUVWXYZ")

\* ${value} in a template literal
Interpolate(opt) == IF Present(opt) THEN opt[1] ELSE "undefined"

CommonCauses ==
    <<"Common causes:",
      "- IntelliSuggest script not loaded or blocked by ad blockers",
      "- Script placed in wrong location (should be in <head> or before tracking calls)",
      "- Missing _isuid cookie (check browser dev tools > Application > Cookies)",
      "- SKU values don't match Searchspring indexed product SKU field",
      "- Browser console errors preventing script execution",
      "">>

ScriptLoading ==
    <<"Script loading issue:",
      "- Ensure IntelliSuggest script loads before your tracking code",
      "- Remove async/defer attributes from the IntelliSuggest script tag",
      "- Mark.check browser console for script loading errors",
      "">>

ApiIntegration(cfg) ==
    <<"API integration issues:",
      "- Verify siteId is correct: " \o Interpolate(cfg.siteId),
      "- Mark.check CORS settings if calling from browser",
      "- Ensure all required parameters are included",
      "- Mark.check network tab for API response errors",
      "">>

\* The keyword tests as an else-if chain: only the first matching group's
\* paragraph is appended
FirstMatchingParagraph(cfg, lower) ==
    IF Includes(lower, "not working") \/ Includes(lower, "not tracking") THEN CommonCauses
    ELSE IF Includes(lower, "undefined") \/ Includes(lower, "is not defined")
        THEN ScriptLoading
    ELSE IF Includes(lower, "search") \/ Includes(lower, "results") THEN ApiIntegration(cfg)
    ELSE <<"">>

\* The three keyword tests on issue.toLowerCase(), each appending its paragraph
troubleshootingParagraphs(cfg, lower) ==
    CatAll(<<
        IF Includes(lower, "not working") \/ Includes(lower, "not tracking")
            THEN CommonCauses ELSE <<"">>,
        IF Includes(lower, "undefined") \/ Includes(lower, "is not defined")
            THEN ScriptLoading ELSE <<"">>,
        IF Includes(lower, "search") \/ Includes(lower, "results")
            THEN ApiIntegration(cfg) ELSE <<"">> >>)

\* let troubleshooting = ""; if (issue) { ... }
troubleshootingFor(cfg, issue) ==
    IF TruthyStr(issue)
        THEN Cat(<<"", "", "Troubleshooting for: \"" \o issue[1] \o "\"", "">>,
                 troubleshootingParagraphs(cfg, toLowerCase(issue[1])))
        ELSE <<"">>

SupportLinks ==
    <<"For additional support:",
      "- Documentation: https://docs.searchspring.com/",
      "- Support: https://help.searchspring.net/",
      "- Implementation guides: https://help.searchspring.net/hc/en-us/sections/201185149">>

titleOf(codeType, platform) ==
    "Code Validation Results for " \o toUpperCase(codeType) \o " implementation"
        \o (IF TruthyStr(platform) THEN " on " \o toUpperCase(platform[1]) ELSE "")

\* `Warnings:\n${warnings.join('\n')}\n` and the like, "" for an empty array
sectionOf(heading, findings) ==
    IF Len(findings) > 0 THEN CatAll(<< <<heading, "">>, JoinLines(findings), <<"", "">> >>)
                         ELSE <<"">>

\* The report with the suggestions ahead of the warnings
SummarySuggestionsFirst(title, results, warnings, suggestions, troubleshooting) ==
    CatAll(<< <<title, "", "">>, JoinLines(results), <<"", "", "">>,
              sectionOf("Suggestions:", suggestions), sectionOf("Warnings:", warnings),
              troubleshooting, <<"">> \o SupportLinks >>)

\* const summary = `...`
summaryOf(title, results, warnings, suggestions, troubleshooting) ==
    CatAll(<< <<title, "", "">>, JoinLines(results), <<"", "", "">>,
              sectionOf("Warnings:", warnings), sectionOf("Suggestions:", suggestions),
              troubleshooting, <<"">> \o SupportLinks >>)

-----------------------------------------------------------------------------
(* validateCode *)

\* Whether some code.includes(...) is evaluated: in every codeType block,
\* and in the second check of the shopify block
codeIsRead(codeType, platform) ==
    (Present(codeType) /\ codeType[1] \in CodeTypes) \/ platform = Some("shopify")

\* The method calls on a parameter with no guard for undefined in front
DereferencesUnguarded(params) ==
    PushIf(codeIsRead(params.codeType, params.platform),
           [on |-> params.code, prop |-> "includes"])
    \o <<[on |-> params.issue, prop |-> "toLowerCase"]>>
    \o <<[on |-> params.codeType, prop |-> "toUpperCase"]>>
    \o <<[on |-> params.platform, prop |-> "toUpperCase"]>>

\* The method calls validateCode makes on its parameters, in the order it
\* evaluates them: issue.toLowerCase() is under `if (issue)`,
\* platform.toUpperCase() under `platform ? ... : ''`
dereferences(params) ==
    PushIf(codeIsRead(params.codeType, params.platform),
           [on |-> params.code, prop |-> "includes"])
    \o PushIf(TruthyStr(params.issue), [on |-> params.issue, prop |-> "toLowerCase"])
    \o <<[on |-> params.codeType, prop |-> "toUpperCase"]>>
    \o PushIf(TruthyStr(params.platform), [on |-> params.platform, prop |-> "toUpperCase"])

validationResultsOf(code, codeType) ==
    When(codeType \in {"tracking", "beacon"}, trackingResults(code))
    \o When(codeType \in ReadApis, readApiResults(code, codeType))
    \o When(codeType = "beacon", beaconResults(code))
    \o When(codeType = "bulk-index", bulkIndexResults(code))

warningsOf(code, codeType, platform) ==
    When(codeType \in {"tracking", "beacon"},
         PushIf(~Includes(code, "typeof ss"), Finding.SafetyWarning))
    \o When(codeType \in ReadApis, readApiWarnings(code, codeType))
    \o platformWarnings(code, codeType, platform)

\* What the method collects when none of its calls throws
findingsOf(cfg, code, codeType, platform, issue) ==
    LET results == validationResultsOf(code, codeType)
        warnings == warningsOf(code, codeType, platform)
        suggestions == platformSuggestions(code, platform)
        troubleshooting == troubleshootingFor(cfg, issue)
    IN  [validationResults |-> results,
         warnings |-> warnings,
         suggestions |-> suggestions,
         troubleshooting |-> troubleshooting,
         summary |-> summaryOf(titleOf(codeType, platform), results, warnings,
                               suggestions, troubleshooting)]

\* validateCode(params): [threw, text, report]; a TypeError of the method
\* reaches the handler's catch
validateCode(cfg, params) ==
    LET failing == SelectSeq(dereferences(params), LAMBDA d : d.on = Undefined)
    IN  IF failing # <<>>
            THEN [threw |-> TRUE, text |-> TypeErrorReading(failing[1].prop).message,
                  report |-> Undefined]
        ELSE LET r == findingsOf(cfg, IF Present(params.code) THEN params.code[1] ELSE "",
                                 params.codeType[1], params.platform, params.issue)
             IN  [threw |-> FALSE, text |-> join(r.summary, "\n"), report |-> Some(r)]

-----------------------------------------------------------------------------
(* getApiGuide, getParameterGuide, generateCode                            *)
(*                                                                          *)
(* The texts these methods return are long constant templates; the model    *)
(* keeps the lines that depend on the arguments or on the config, without   *)
(* the backquotes the guide puts around a parameter name.                   *)

Apis ==
    {"search", "autocomplete", "suggest", "trending", "recommendations", "finder",
     "beacon", "bulk-index"}

SearchspringHost(cfg) == "https://" \o Interpolate(cfg.siteId) \o ".a.searchspring.io"

\* const apiGuides = { ... }: name, endpoint and requiredParams of each entry
apiGuides(cfg, api) ==
    CASE api = "search" ->
           [name |-> "Search API",
            endpoint |-> SearchspringHost(cfg) \o "/api/search/search.json",
            requiredParams |-> <<"siteId", "resultsFormat", "userId", "sessionId",
                                 "pageLoadId", "domain">>]
      [] api = "autocomplete" ->
           [name |-> "Autocomplete API",
            endpoint |-> SearchspringHost(cfg) \o "/api/search/autocomplete.json",
            requiredParams |-> <<"siteId", "resultsFormat", "userId", "sessionId",
                                 "pageLoadId", "domain">>]
      [] api = "suggest" ->
           [name |-> "Suggest API",
            endpoint |-> SearchspringHost(cfg) \o "/api/suggest/query",
            requiredParams |-> <<"siteId">>]
      [] api = "trending" ->
           [name |-> "Trending API",
            endpoint |-> SearchspringHost(cfg) \o "/api/suggest/trending",
            requiredParams |-> <<"siteId">>]
      [] api = "recommendations" ->
           [name |-> "Recommendations API",
            endpoint |-> SearchspringHost(cfg) \o "/boost/" \o Interpolate(cfg.siteId)
                             \o "/recommend",
            requiredParams |-> <<"tags">>]
      [] api = "finder" ->
           [name |-> "Finder API",
            endpoint |-> SearchspringHost(cfg) \o "/api/search/search.json",
            requiredParams |-> <<"siteId", "resultsPerPage=0">>]
      [] api = "beacon" ->
           [name |-> "Beacon API",
            endpoint |-> "https://beacon.searchspring.io/api/event",
            requiredParams |->
                <<"array of event objects with: category, context, event, id, type">>]
      [] api = "bulk-index" ->
           [name |-> "Bulk Indexing API",
            endpoint |-> "https://index-api.searchspring.net/api/index/feed",
            requiredParams |-> <<"feedId">>]

\* getApiGuide(params): [threw, text]
getApiGuide(cfg, params) ==
    IF ~Present(params.api) \/ params.api[1] \notin Apis
        THEN [threw |-> TRUE, text |-> "Unknown API: " \o Interpolate(params.api)]
    ELSE LET guide == apiGuides(cfg, params.api[1])
         IN  [threw |-> FALSE,
              text |-> join(<<"# " \o guide.name \o " Implementation Guide",
                              "**API Endpoint**: " \o guide.endpoint,
                              "## Required Parameters">>
                            \o [i \in DOMAIN guide.requiredParams |->
                                    "- " \o guide.requiredParams[i]],
                            "\n")]

\* Object.keys(parameterGuides[api]); <<>> for an api without an entry
parameterNames(api) ==
    CASE api = "search" -> <<"q", "filters", "bgfilters", "sort", "userId", "sessionId",
                             "pageLoadId", "domain">>
      [] api = "autocomplete" -> <<"q">>
      [] api = "recommendations" -> <<"tags", "limits", "shopper">>
      [] api = "beacon" -> <<"type", "category", "data">>
      [] OTHER -> <<>>

\* getParameterGuide(params): [threw, text]
getParameterGuide(params) ==
    LET api == Interpolate(params.api)
        names == IF Present(params.api) THEN parameterNames(params.api[1]) ELSE <<>>
    IN  IF names = <<>>
            THEN [threw |-> FALSE,
                  text |-> "Parameter guidance for " \o api \o " API is not yet available. Use the searchspring_api_guide tool to get comprehensive API documentation."]
        ELSE IF ~Present(params.parameter) \/ params.parameter[1] \notin Range(names)
            THEN [threw |-> FALSE,
                  text |-> join(<<"Parameter '" \o Interpolate(params.parameter)
                                      \o "' not found for " \o api \o " API.",
                                  "",
                                  "Available parameters for " \o api \o ":">>
                                \o [i \in DOMAIN names |-> "- " \o names[i]],
                                "\n")]
        ELSE [threw |-> FALSE,
              text |-> "# " \o params.parameter[1] \o " Parameter Guide ("
                           \o toUpperCase(api) \o " API)"]

\* The template tables of getPlatformImplementation, each template as its
\* lines; sku, price and quantity are the texts interpolated into the custom
\* templates
implementations(sku, price, quantity) ==
    ("shopify" :>
        [product |->
            <<"<!-- Add to product page template -->",
              "<script>",
              "if (typeof ss != 'undefined') {",
              "  ss.track.product.view({",
              "    sku: '{{ product.variants.first.sku }}',",
              "    name: '{{ product.title }}',",
              "    price: {{ product.price | money_without_currency }}",
              "  });",
              "}",
              "</script>">>,
         cart |->
            <<"<!-- Add to cart page or add-to-cart action -->",
              "<script>",
              "if (typeof ss != 'undefined') {",
              "  {% for item in cart.items %}",
              "  ss.track.cart.add({",
              "    sku: '{{ item.sku }}',",
              "    name: '{{ item.product.title }}',",
              "    price: {{ item.price | money_without_currency }},",
              "    quantity: {{ item.quantity }}",
              "  });",
              "  {% endfor %}",
              "}",
              "</script>">>,
         sale |->
            <<"<!-- Add to thank you page -->",
              "<script>",
              "if (typeof ss != 'undefined') {",
              "  {% for line_item in order.line_items %}",
              "  ss.track.purchase.buy({",
              "    sku: '{{ line_item.sku }}',",
              "    name: '{{ line_item.title }}',",
              "    price: {{ line_item.price | money_without_currency }},",
              "    quantity: {{ line_item.quantity }}",
              "  });",
              "  {% endfor %}",
              "}",
              "</script>">>])
    @@ ("bigcommerce-stencil" :>
        [product |->
            <<"<!-- Add to product page template -->",
              "<script>",
              "if (typeof ss != 'undefined') {",
              "  ss.track.product.view({",
              "    sku: '{{product.sku}}',",
              "    name: '{{product.title}}',",
              "    price: {{product.price.without_tax.value}}",
              "  });",
              "}",
              "</script>">>,
         cart |->
            <<"<!-- Add to cart page -->",
              "<script>",
              "if (typeof ss != 'undefined') {",
              "  {{#each cart.items}}",
              "  ss.track.cart.add({",
              "    sku: '{{sku}}',",
              "    name: '{{name}}',",
              "    price: {{price.value}},",
              "    quantity: {{quantity}}",
              "  });",
              "  {{/each}}",
              "}",
              "</script>">>,
         sale |->
            <<"<!-- Add to order confirmation -->",
              "<script>",
              "if (typeof ss != 'undefined') {",
              "  {{#each order.items}}",
              "  ss.track.purchase.buy({",
              "    sku: '{{sku}}',",
              "    name: '{{name}}',",
              "    price: {{price.value}},",
              "    quantity: {{quantity}}",
              "  });",
              "  {{/each}}",
              "}",
              "</script>">>])
    @@ ("magento2" :>
        [product |->
            <<"<!-- Add to catalog/product/view.phtml -->",
              "<script>",
              "if (typeof ss != 'undefined') {",
              "  ss.track.product.view({",
              "    sku: '<?= $product->getSku() ?>',",
              "    name: '<?= $product->getName() ?>',",
              "    price: <?= $product->getFinalPrice() ?>",
              "  });",
              "}",
              "</script>">>,
         cart |->
            <<"<!-- Add to checkout/cart/index.phtml -->",
              "<script>",
              "if (typeof ss != 'undefined') {",
              "  <?php foreach ($cart->getAllVisibleItems() as $item): ?>",
              "  ss.track.cart.add({",
              "    sku: '<?= $item->getSku() ?>',",
              "    name: '<?= $item->getName() ?>',",
              "    price: <?= $item->getPrice() ?>,",
              "    quantity: <?= $item->getQty() ?>",
              "  });",
              "  <?php endforeach; ?>",
              "}",
              "</script>">>,
         sale |->
            <<"<!-- Add to checkout/success.phtml -->",
              "<script>",
              "if (typeof ss != 'undefined') {",
              "  <?php foreach ($order->getAllVisibleItems() as $item): ?>",
              "  ss.track.purchase.buy({",
              "    sku: '<?= $item->getSku() ?>',",
              "    name: '<?= $item->getName() ?>',",
              "    price: <?= $item->getPrice() ?>,",
              "    quantity: <?= (int)$item->getQtyOrdered() ?>",
              "  });",
              "  <?php endforeach; ?>",
              "}",
              "</script>">>])
    @@ ("custom" :>
        [product |->
            <<"<!-- Generic implementation for product view -->",
              "<script>",
              "// Ensure IntelliSuggest is loaded",
              "if (typeof ss != 'undefined') {",
              "  ss.track.product.view({",
              "    sku: '" \o sku \o "',",
              "    name: 'Product Name',",
              "    price: " \o price,
              "  });",
              "}",
              "</script>">>,
         cart |->
            <<"<!-- Generic implementation for cart/add to cart -->",
              "<script>",
              "if (typeof ss != 'undefined') {",
              "  ss.track.cart.add({",
              "    sku: '" \o sku \o "',",
              "    name: 'Product Name',",
              "    price: " \o price \o ",",
              "    quantity: " \o quantity,
              "  });",
              "}",
              "</script>">>,
         sale |->
            <<"<!-- Generic implementation for purchase -->",
              "<script>",
              "if (typeof ss != 'undefined') {",
              "  ss.track.purchase.buy({",
              "    sku: '" \o sku \o "',",
              "    name: 'Product Name',",
              "    price: " \o price \o ",",
              "    quantity: " \o quantity,
              "  });",
              "}",
              "</script>">>])

\* { platform, eventType, sku = "PRODUCT_SKU", price = 99.99, quantity = 1 }:
\* the text a template interpolates for a parameter or its default
OrDefault(opt, default) == IF Present(opt) THEN opt[1] ELSE default

\* table[key]: the table's own property, undefined when it has none
Lookup(table, key) ==
    IF Present(key) /\ key[1] \in DOMAIN table THEN Some(table[key[1]]) ELSE Undefined

documentationUrls ==
    ("shopify" :> "https://help.searchspring.net/hc/en-us/articles/206972376-IntelliSuggest-Tracking-in-Shopify")
    @@ ("bigcommerce-blueprint" :> "https://help.searchspring.net/hc/en-us/articles/115001480266")
    @@ ("bigcommerce-stencil" :> "https://help.searchspring.net/hc/en-us/articles/360056186252")
    @@ ("magento1" :> "https://help.searchspring.net/hc/en-us/articles/201185069-IntelliSuggest-Tracking-in-Magento")
    @@ ("magento2" :> "https://github.com/searchspring/magento2-searchspring-tracking/")
    @@ ("miva" :> "https://help.searchspring.net/hc/en-us/articles/201185049-IntelliSuggest-Tracking-for-Miva-Merchant")
    @@ ("commercev3" :> "https://help.searchspring.net/hc/en-us/articles/201185179")
    @@ ("3dcart" :> "https://help.searchspring.net/hc/en-us/articles/201185169-IntelliSuggest-Tracking-in-3dCart")
    @@ ("volusion" :> "https://help.searchspring.net/hc/en-us/articles/115001879966")
    @@ ("custom" :> "https://help.searchspring.net/hc/en-us/articles/201185129-Adding-IntelliSuggest-Tracking")

\* The text both variants of the tracking-code generator return
trackingImplementationText(platform, eventType, code, url) ==
    join(<<"IntelliSuggest Tracking Implementation for " \o toUpperCase(platform)
               \o " - " \o eventType \o " event:",
           "",
           "IMPORTANT: Include IntelliSuggest script first:",
           "<script src=\"//cdn.searchspring.net/intellisuggest/is.min.js\"></script>",
           "",
           "Implementation Code:",
           code,
           "",
           "Documentation: " \o url,
           "",
           "Requirements:",
           "- _isuid cookie must be set",
           "- IntelliSuggest script must NOT have defer/async attributes",
           "- SKU values must match Searchspring indexed product SKU core field">>,
         "\n")

\* a || b
Either(a, b) == IF Present(a) THEN a ELSE b

\* generateTrackingCode(platform, eventType): the tables are those of
\* shopify and custom, with sku "PRODUCT_SKU", price 99.99 and quantity 1;
\* platform.toUpperCase() throws when platform is undefined
generateTrackingCode(platform, eventType) ==
    LET all == implementations("PRODUCT_SKU", "99.99", "1")
        tables == [p \in {"shopify", "custom"} |-> all[p]]
        platformCode == Either(Lookup(tables, platform), Some(tables["custom"]))
        code == Either(Either(Either(Lookup(platformCode[1], Some(eventType)),
                                     Lookup(platformCode[1], Some("product"))),
                              Lookup(tables["custom"], Some("product"))),
                       Some(<<"Code generation not available">>))
        url == Either(Lookup([p \in {"shopify", "custom"} |-> documentationUrls[p]], platform),
                      Some(documentationUrls["custom"]))
    IN  IF ~Present(platform)
            THEN [threw |-> TRUE, text |-> TypeErrorReading("toUpperCase").message]
            ELSE [threw |-> FALSE,
                  text |-> trackingImplementationText(platform[1], eventType,
                                                      join(code[1], "\n"), url[1])]

\* generateApiCode(api, platform, useCase): every api of the table has a
\* javascript template, which serves the platforms without their own
generateApiCode(api, platform, useCase) ==
    IF ~Present(api) \/ api[1] \notin Apis
        THEN [threw |-> FALSE,
              text |-> "Code generation for " \o Interpolate(api) \o " API on "
                           \o Interpolate(platform)
                           \o " platform is not yet available. Use the searchspring_api_guide tool to get implementation guidance."]
    ELSE IF ~Present(platform)
        THEN [threw |-> TRUE, text |-> TypeErrorReading("toUpperCase").message]
    ELSE [threw |-> FALSE,
          text |-> join(<<"# " \o toUpperCase(api[1]) \o " API Code for "
                              \o toUpperCase(platform[1]),
                          "">>
                        \o (IF TruthyStr(useCase) THEN <<"**Use Case**: " \o useCase[1], "">>
                                                  ELSE <<>>)
                        \o <<"**Generated Implementation:**">>,
                        "\n")]

\* CodeGeneratorParams: the declared platforms and event types
GeneratorPlatforms ==
    {"shopify", "bigcommerce", "magento2", "javascript", "php", "python", "custom"}

GeneratorEventTypes == {"product", "cart", "sale", "search-click", "impression"}

\* A generateCode that does not resolve the legacy name
GenerateCodeNoAlias(params) ==
    IF params.api = Some("beacon") /\ TruthyStr(params.eventType)
        THEN generateTrackingCode(params.platform, params.eventType[1])
        ELSE generateApiCode(params.api, params.platform, params.useCase)

\* generateCode(params): "tracking" is the legacy name of "beacon"
generateCode(params) ==
    LET targetApi == IF params.api = Some("tracking") THEN Some("beacon") ELSE params.api
    IN  IF targetApi = Some("beacon") /\ TruthyStr(params.eventType)
            THEN generateTrackingCode(params.platform, params.eventType[1])
            ELSE generateApiCode(targetApi, params.platform, params.useCase)

-----------------------------------------------------------------------------
(* The code validator tool *)

\* Most statements of a drawn snippet
MaxFragments == 2

\* Statements a snippet is made of
Fragments ==
    {"<script src='//cdn.searchspring.net/intellisuggest/is.min.js'></script>",
     "if (typeof ss != 'undefined') { init(); }",
     "ss.track.product.view({ id: 'A1' });",
     "ss.track.cart.add({ sku: 'A1' });",
     "ss.track.cart.add({ sku: 'A1', quantity: 1 });",
     "ss.track.cart.add({ quantity: 1 });",
     "ss.track.purchase.buy({ items: [] });",
     "fetch('https://abc123.a.searchspring.io/api/search/search.json?siteId=abc123&q=shoes&userId=u1').catch(report);"}

\* Statements that call the write APIs
WriteFragments ==
    {"fetch('https://beacon.searchspring.io/api/event', { method: 'POST' });",
     "body: JSON.stringify({ type: 'click' })",
     "post('https://index-api.searchspring.net/api/v1/products', { secretKey: key, products: list });"}

\* Statements of a storefront template
TemplateFragments ==
    {"ss.track.product.view({ sku: '{{ product.variants.first.sku }}' });",
     "{{ product.selected_or_first_available_variant.sku }}",
     "<?= $block->getSku() ?>",
     "debounce(search, 300); const pageLoadId = uuid();"}

\* The statements, one per line
Snippets(F) == {join(lines, "\n") : lines \in SeqsUpTo(F, MaxFragments)}

Issues ==
    {"", "page is slow", "Tracking NOT WORKING", "ss is not defined",
     "Uncaught ReferenceError: undefined, cart not tracking",
     "Search results are undefined and not working"}

ValidatorArgs ==
    \* every snippet under every codeType
    {[code |-> Some(c), codeType |-> Some(t), platform |-> Undefined, issue |-> Undefined] :
        c \in Snippets(Fragments), t \in CodeTypes}
    \cup
    \* the beacon and bulk-index checks
    {[code |-> Some(c), codeType |-> Some(t), platform |-> Undefined, issue |-> Undefined] :
        c \in Snippets(WriteFragments), t \in {"beacon", "bulk-index"}}
    \cup
    \* the platform checks
    {[code |-> Some(c), codeType |-> Some(t), platform |-> p, issue |-> Undefined] :
        c \in Snippets(TemplateFragments),
        t \in {"tracking", "beacon", "autocomplete", "recommendations"},
        p \in Optional(Platforms)}
    \cup
    \* troubleshooting
    {[code |-> Some(c), codeType |-> Some(t), platform |-> p, issue |-> i] :
        c \in {"", "ss.track.product.view({ sku: '{{ product.variants.first.sku }}' });"},
        t \in {"tracking", "search"},
        p \in {Undefined, Some("shopify")}, i \in Optional(Issues)}
    \cup
    \* `args as any`: required properties left out, a codeType outside the enum
    {[code |-> c, codeType |-> t, platform |-> p, issue |-> Undefined] :
        c \in {Undefined, Some("")}, t \in {Undefined, Some("tracking"), Some("widget")},
        p \in {Undefined, Some("shopify"), Some("magento2")}}

ValidatorRequests ==
    {[name |-> "searchspring_code_validator", arguments |-> a] : a \in ValidatorArgs}

\* The dispatch to getApiGuide, getParameterGuide and generateCode is not
\* among the sources: a request for one of them names the method
AssistantRequests ==
    ValidatorRequests
    \cup {[name |-> "getApiGuide", arguments |-> [api |-> a]] :
              a \in Optional(Apis \cup {"tracking"})}
    \cup {[name |-> "getParameterGuide", arguments |-> [api |-> a, parameter |-> p]] :
              a \in Optional({"search", "autocomplete", "trending"}),
              p \in Optional({"q", "tags", "sort"})}
    \cup {[name |-> "generateCode",
           arguments |-> [api |-> a, platform |-> p, eventType |-> e, useCase |-> u]] :
              a \in Optional(Apis \cup {"tracking", "widget"}),
              p \in Optional(GeneratorPlatforms),
              e \in Optional(GeneratorEventTypes),
              u \in Optional({"", "site search"})}

ReceiveAssistant ==
    /\ pc = "idle"
    /\ \E req \in AssistantRequests : request' = req
    /\ pc' = "pending"
    /\ UNCHANGED <<config, searchParams, outbound, idLog, response,
                   env, generated, report, startupError>>

\* A validateCode that keeps a site id on the client for the calls to come
CallCodeValidatorStoring ==
    /\ pc = "pending"
    /\ request.name = "searchspring_code_validator"
    /\ LET r == validateCode(config, request.arguments)
       IN  /\ report' = r.report
           /\ response' = Some(IF r.threw
                                   THEN [isError |-> TRUE, text |-> "Error: " \o r.text]
                                   ELSE [isError |-> FALSE, text |-> r.text])
    /\ pc' = "done"
    /\ config' = [config EXCEPT !.siteId = Some("abc123")]
    /\ UNCHANGED <<request, searchParams, outbound, idLog, env, generated, startupError>>

\* case "searchspring_code_validator":
\*     return await searchspringClient.validateCode(args as any);
CallCodeValidator ==
    /\ pc = "pending"
    /\ request.name = "searchspring_code_validator"
    /\ LET r == validateCode(config, request.arguments)
       IN  /\ report' = r.report
           /\ response' = Some(IF r.threw
                                   THEN [isError |-> TRUE, text |-> "Error: " \o r.text]
                                   ELSE [isError |-> FALSE, text |-> r.text])
    /\ pc' = "done"
    /\ UNCHANGED <<config, request, searchParams, outbound, idLog, env, generated,
                   startupError>>

\* A method that only builds a text returned it, or threw into the
\* handler's catch
ReturnText(r) ==
    /\ response' = Some(IF r.threw THEN [isError |-> TRUE, text |-> "Error: " \o r.text]
                                   ELSE [isError |-> FALSE, text |-> r.text])
    /\ pc' = "done"
    /\ UNCHANGED <<config, request, searchParams, outbound, idLog, env, generated,
                   report, startupError>>

CallGetApiGuide ==
    /\ pc = "pending"
    /\ request.name = "getApiGuide"
    /\ ReturnText(getApiGuide(config, request.arguments))

CallGetParameterGuide ==
    /\ pc = "pending"
    /\ request.name = "getParameterGuide"
    /\ ReturnText(getParameterGuide(request.arguments))

CallGenerateCode ==
    /\ pc = "pending"
    /\ request.name = "generateCode"
    /\ ReturnText(generateCode(request.arguments))

NextAssistant ==
    \/ ReceiveAssistant
    \/ CallCodeValidator
    \/ CallGetApiGuide
    \/ CallGetParameterGuide
    \/ CallGenerateCode
    \/ Respond

SpecAssistant == Init /\ [][NextAssistant]_vars

ValidatorTool == {"searchspring_code_validator"}

\* The call returned a report
Reported == Done(ValidatorTool) /\ Present(report)

findings == report[1].validationResults \o report[1].warnings \o report[1].suggestions

\* C12: for a snippet (the empty one included), a codeType of the
\* enumeration and any platform and issue, present or not, validateCode
\* returns a report and the handler returns no error
C12_NoErrorOutcome ==
    (/\ Done(ValidatorTool)
     /\ Present(args.code)
     /\ Present(args.codeType) /\ args.codeType[1] \in CodeTypes)
        => /\ Present(report)
           /\ ~response[1].isError
           /\ response[1].text = join(report[1].summary, "\n")

\* A report for the empty snippet of a call that leaves platform and issue out
C12_Witness ==
    /\ Reported
    /\ args.code = Some("")
    /\ args.platform = Undefined
    /\ args.issue = Undefined
    /\ args.codeType = Some("tracking")
\* How often x occurs in seq
Occurrences(seq, x) == Cardinality({i \in DOMAIN seq : seq[i] = x})

\* The report of the same call for another snippet
ReportFor(code) ==
    findingsOf(config, code, args.codeType[1], args.platform, args.issue)

CountOf(r) == Len(r.validationResults) + Len(r.warnings) + Len(r.suggestions)

\* C13 as stated: for a fixed codeType and platform every snippet gets the
\* same number of findings; in particular as many as the empty snippet
C13_FindingCountFixed ==
    (Reported /\ args.codeType[1] \in CodeTypes /\ Present(args.code))
        => CountOf(report[1]) = CountOf(ReportFor(""))

\* The checks that append a finding whatever their outcome: <<error, detected>>
TwoSided(codeType) ==
    (IF codeType \in {"tracking", "beacon"}
         THEN {<<Finding.ScriptMissing, Finding.ScriptDetected>>, <<Finding.TrackingMissing, Finding.TrackingDetected>>}
         ELSE {})
    \cup (IF codeType \in ReadApis
              THEN {<<Finding.EndpointMissing, Finding.EndpointDetected>>, <<Finding.SiteIdMissing, Finding.SiteIdDetected>>}
              ELSE {})
    \cup (IF codeType = "beacon"
              THEN {<<Finding.BeaconEndpointMissing, Finding.BeaconEndpointDetected>>} ELSE {})
    \cup (IF codeType = "bulk-index"
              THEN {<<Finding.BulkEndpointMissing, Finding.BulkEndpointDetected>>} ELSE {})

\* The findings of the checks that append only when they fail
OneSided ==
    {Finding.SafetyWarning, Finding.ProductError, Finding.CartError, Finding.PurchaseError, Finding.IdentityWarning, Finding.QueryError,
     Finding.DebounceWarning, Finding.PageLoadIdWarning, Finding.ErrorHandlingWarning, Finding.PostError, Finding.TypeFieldError,
     Finding.SecretKeyError, Finding.ProductsError, Finding.LiquidWarning, Finding.VariantSuggestion, Finding.PhpWarning}

\* C13 (amended): every check is evaluated whatever the others found. The
\* script, tracking-call, endpoint and siteId checks append exactly one
\* finding each, an error or a "detected"; every other check appends its
\* finding at most once, when it fails; so the count of findings is the
\* number of two-sided checks plus the number of failed one-sided checks
C13_OneFindingPerTwoSidedCheck ==
    (Reported /\ args.codeType[1] \in CodeTypes /\ Present(args.code))
        => /\ \A pair \in TwoSided(args.codeType[1]) :
                  Occurrences(report[1].validationResults, pair[1])
                      + Occurrences(report[1].validationResults, pair[2]) = 1
           /\ \A f \in OneSided : Occurrences(findings, f) <= 1
           /\ CountOf(report[1]) =
                  Cardinality(TwoSided(args.codeType[1]))
                      + Cardinality({f \in OneSided : Occurrences(findings, f) = 1})

\* A tracking snippet with the script missing, tracking calls present and a
\* failed cart check: three findings of three checks, and no safety warning
\* because the snippet tests typeof ss
C13_Witness ==
    /\ Reported
    /\ args.codeType = Some("tracking")
    /\ report[1].validationResults = <<Finding.ScriptMissing, Finding.TrackingDetected, Finding.CartError>>
    /\ Includes(args.code[1], "typeof ss")
    /\ report[1].warnings = <<>>

\* C14: for the empty snippet and every codeType no finding is a positive
\* ("detected") one and at least one finding is an error
C14_EmptySnippetOnlyNegative ==
    (Reported /\ args.code = Some("") /\ args.codeType[1] \in CodeTypes)
        => /\ \A i \in DOMAIN findings : ~StartsWith(findings[i], Mark.check)
           /\ \E i \in DOMAIN report[1].validationResults :
                  StartsWith(report[1].validationResults[i], Mark.cross)

\* The empty snippet validated as a search implementation
C14_Witness ==
    /\ Reported
    /\ args.code = Some("")
    /\ args.codeType = Some("search")
    /\ report[1].validationResults = <<Finding.EndpointMissing, Finding.SiteIdMissing, Finding.QueryError>>

\* C15: for codeType tracking and a snippet that contains ss.track.cart,
\* the cart error is reported exactly when the snippet lacks the substring
\* sku or lacks the substring quantity
C15_CartRequiresSkuAndQuantity ==
    (/\ Reported
     /\ args.codeType = Some("tracking")
     /\ Present(args.code) /\ Includes(args.code[1], "ss.track.cart"))
        => (Occurrences(report[1].validationResults, Finding.CartError) = 1
                <=> (~Includes(args.code[1], "sku") \/ ~Includes(args.code[1], "quantity")))

\* A cart call with a sku and no quantity is reported
C15_Witness ==
    /\ Reported
    /\ args.codeType = Some("tracking")
    /\ Includes(args.code[1], "ss.track.cart")
    /\ Includes(args.code[1], "sku")
    /\ ~Includes(args.code[1], "quantity")
    /\ Occurrences(report[1].validationResults, Finding.CartError) = 1
\* The keyword groups in the order validateCode tests them, each with the
\* first line of its paragraph
KeywordGroups ==
    <<[keywords |-> {"not working", "not tracking"}, heading |-> "Common causes:"],
      [keywords |-> {"undefined", "is not defined"}, heading |-> "Script loading issue:"],
      [keywords |-> {"search", "results"}, heading |-> "API integration issues:"]>>

\* The issue text holds one of the keywords, in whatever letter case
Mentions(issue, keywords) == \E k \in keywords : Includes(toLowerCase(issue), k)

\* The paragraph headings of a text, in the order they appear
HeadingsOf(text) ==
    SelectSeq(text, LAMBDA line : \E g \in DOMAIN KeywordGroups :
                                      line = KeywordGroups[g].heading)

MatchingGroups(issue) ==
    SelectSeq(KeywordGroups, LAMBDA g : Mentions(issue, g.keywords))

NonBlank(text) == SelectSeq(text, LAMBDA line : line # "")

LastLines(text, n) == SubSeq(text, Len(text) - n + 1, Len(text))

\* C17: the report is, in this order, the title, the validation results,
\* the Warnings section when there are warnings, the Suggestions section
\* when there are suggestions, the troubleshooting text and the support
\* links; the support links end every report
C17_ReportOrder ==
    Reported =>
        LET r == report[1]
        IN  /\ Len(r.summary) >= Len(SupportLinks)
            /\ LastLines(r.summary, Len(SupportLinks)) = SupportLinks
            /\ StartsWith(r.summary[1], "Code Validation Results for ")
            /\ Tail(NonBlank(r.summary)) =
                   r.validationResults
                   \o (IF r.warnings # <<>> THEN <<"Warnings:">> \o r.warnings ELSE <<>>)
                   \o (IF r.suggestions # <<>> THEN <<"Suggestions:">> \o r.suggestions
                                               ELSE <<>>)
                   \o NonBlank(r.troubleshooting)
                   \o SupportLinks

\* A report with results, a warning, a suggestion and troubleshooting text
C17_Witness ==
    /\ Reported
    /\ report[1].validationResults # <<>>
    /\ report[1].warnings # <<>>
    /\ report[1].suggestions # <<>>
    /\ NonBlank(report[1].troubleshooting) # <<>>

AssistantTools == {"searchspring_code_validator", "getApiGuide", "getParameterGuide",
                   "generateCode"}

\* What a method returns to a call made on a client just constructed with cfg
FreshResult(cfg, req) ==
    CASE req.name = "searchspring_code_validator" -> validateCode(cfg, req.arguments)
      [] req.name = "getApiGuide" -> getApiGuide(cfg, req.arguments)
      [] req.name = "getParameterGuide" -> getParameterGuide(req.arguments)
      [] req.name = "generateCode" -> generateCode(req.arguments)

-----------------------------------------------------------------------------
(* validateConfig and the startup of the server *)

RECURSIVE SkipSpaces(_)
SkipSpaces(s) == IF s # "" /\ SubSeq(s, 1, 1) = " " THEN SkipSpaces(SubSeq(s, 2, Len(s))) ELSE s

\* The longest prefix of s made of decimal digits
RECURSIVE LeadingDigits(_)
LeadingDigits(s) ==
    IF s # "" /\ IsDigit(SubSeq(s, 1, 1))
        THEN SubSeq(s, 1, 1) \o LeadingDigits(SubSeq(s, 2, Len(s)))
        ELSE ""

RECURSIVE DecimalValue(_)
DecimalValue(digits) ==
    IF digits = "" THEN 0
    ELSE 10 * DecimalValue(SubSeq(digits, 1, Len(digits) - 1))
             + DigitValue(SubSeq(digits, Len(digits), Len(digits)))

\* parseInt(s): leading blanks are skipped, a sign is read, then as many
\* decimal digits as there are; NaN when there is none. A number is
\* [nan, n]: NaN, or the integer n
parseInt(s) ==
    LET t == SkipSpaces(s)
        signed == t # "" /\ SubSeq(t, 1, 1) \in {"-", "+"}
        digits == LeadingDigits(IF signed THEN SubSeq(t, 2, Len(t)) ELSE t)
    IN  IF digits = "" THEN [nan |-> TRUE, n |-> 0]
        ELSE IF signed /\ SubSeq(t, 1, 1) = "-" THEN [nan |-> FALSE, n |-> 0 - DecimalValue(digits)]
        ELSE [nan |-> FALSE, n |-> DecimalValue(digits)]

\* timeout: z.number().positive().optional().default(10000)
DefaultTimeout == 10000

\* siteId: z.string().min(1, "Site ID is required"), without .optional():
\* an absent value is an issue as well
SiteIdIssuesRequired(siteId) ==
    IF ~Present(siteId) \/ siteId[1] = "" THEN <<"siteId">> ELSE <<>>

\* siteId: z.string().min(1, "Site ID is required").optional()
siteIdIssues(siteId) ==
    IF Present(siteId) /\ siteId[1] = "" THEN <<"siteId">> ELSE <<>>

\* secretKey: z.string().min(1, ...).optional()
secretKeyIssues(secretKey) ==
    IF Present(secretKey) /\ secretKey[1] = "" THEN <<"secretKey">> ELSE <<>>

\* timeout: z.number() rejects NaN, positive() rejects what is not above 0
timeoutIssues(timeout) ==
    IF Present(timeout) /\ (timeout[1].nan \/ timeout[1].n <= 0) THEN <<"timeout">> ELSE <<>>

\* The paths of the ZodError's issues, in the order of the schema's keys
schemaIssues(raw) ==
    siteIdIssues(raw.siteId) \o secretKeyIssues(raw.secretKey) \o timeoutIssues(raw.timeout)

\* The object validateConfig reads from process.env
rawConfig(e) ==
    [siteId |-> e.SEARCHSPRING_SITE_ID,
     secretKey |-> e.SEARCHSPRING_SECRET_KEY,
     timeout |-> IF TruthyStr(e.SEARCHSPRING_TIMEOUT)
                     THEN Some(parseInt(e.SEARCHSPRING_TIMEOUT[1])) ELSE Undefined]

ConfigErrorMessage(paths) ==
    "Invalid Searchspring configuration. Invalid fields: " \o join(paths, ", ")
        \o "\n\nOptional environment variables:\n"
        \o "- SEARCHSPRING_SITE_ID: (optional) Your Searchspring site ID - LLM can provide examples\n"
        \o "- SEARCHSPRING_SECRET_KEY: (optional) Your Searchspring secret key for bulk indexing\n"
        \o "- SEARCHSPRING_TIMEOUT: (optional) Request timeout in milliseconds"

\* validateConfig(): [threw, message, config]
validateConfig(e) ==
    LET raw == rawConfig(e)
        paths == schemaIssues(raw)
    IN  IF paths # <<>>
            THEN [threw |-> TRUE, message |-> ConfigErrorMessage(paths), config |-> Undefined]
            ELSE [threw |-> FALSE, message |-> "",
                  config |-> Some([siteId |-> raw.siteId,
                                   secretKey |-> raw.secretKey,
                                   timeout |-> IF Present(raw.timeout) THEN raw.timeout[1].n
                                                                       ELSE DefaultTimeout])]

\* The environments the server is started in
Envs ==
    [SEARCHSPRING_SITE_ID : Optional({"", "abc123"}),
     SEARCHSPRING_SECRET_KEY : Optional({"", "s3cret"}),
     SEARCHSPRING_TIMEOUT : Optional({"", "5000", "0", "-5", "abc", " 2500ms", "30"})]

\* `let searchspringClient: SearchspringClient;` before initializeClient()
\* has assigned it: there is no client, hence no config of a client
NoClient == [siteId |-> Undefined, secretKey |-> Undefined, timeout |-> 0]

InitStartup ==
    /\ env \in Envs
    /\ config = NoClient
    /\ pc = "starting"
    /\ request = NoRequest
    /\ searchParams = <<>>
    /\ outbound = <<>>
    /\ idLog = <<>>
    /\ response = Undefined
    /\ generated = Undefined
    /\ report = Undefined
    /\ startupError = Undefined

\* main(): await initializeClient() returned: the global searchspringClient
\* is assigned
InitializeClient ==
    /\ pc = "starting"
    /\ ~validateConfig(env).threw
    /\ config' = validateConfig(env).config[1]
    /\ pc' = "initialized"
    /\ UNCHANGED <<request, searchParams, outbound, idLog, response,
                   env, generated, report, startupError>>

\* A main() that connects the transport before the client is initialized
ConnectTransportFirst ==
    /\ pc = "starting"
    /\ pc' = "idle"
    /\ UNCHANGED <<config, request, searchParams, outbound, idLog, response,
                   env, generated, report, startupError>>

\* main(): await server.connect(transport) after it; from now on the
\* handler is given the tool calls
ConnectTransport ==
    /\ pc = "initialized"
    /\ pc' = "idle"
    /\ UNCHANGED <<config, request, searchParams, outbound, idLog, response,
                   env, generated, report, startupError>>

\* main(): catch (error) { console.error(...); process.exit(1) }
ExitOnStartupError ==
    /\ pc = "starting"
    /\ validateConfig(env).threw
    /\ startupError' = Some(validateConfig(env).message)
    /\ pc' = "exited"
    /\ UNCHANGED <<config, request, searchParams, outbound, idLog, response,
                   env, generated, report>>

NextStartup ==
    \/ InitializeClient
    \/ ConnectTransport
    \/ ExitOnStartupError

SpecStartup == InitStartup /\ [][NextStartup]_vars

NoneSet ==
    /\ env.SEARCHSPRING_SITE_ID = Undefined
    /\ env.SEARCHSPRING_SECRET_KEY = Undefined
    /\ env.SEARCHSPRING_TIMEOUT = Undefined

\* main() has run to its end
Started == pc \notin {"starting", "initialized"}

C20_SiteIdRequired ==
    (Started /\ env.SEARCHSPRING_SITE_ID = Undefined)
        => /\ pc = "exited"
           /\ Present(startupError)
           /\ Includes(startupError[1], "Invalid fields: siteId")
           /\ config = NoClient

-----------------------------------------------------------------------------
(* The later client: its constructor's clients and its remaining methods   *)

\* The public methods of the class the handler's searchspringClient is an
\* instance of
ClientMethods ==
    {"search", "autocomplete", "suggest", "trending", "finder", "recommendations",
     "trackEvent", "bulkIndex", "getBulkIndexStatus", "trackIntelliSuggestEvent",
     "trackSearchResultClick", "getPlatformImplementation"}

\* A constructor that creates the bulk indexing client whatever the config
BulkIndexClientAlways(cfg) ==
    Some([baseURL |-> "https://index-api.searchspring.net",
          username |-> cfg.siteId, password |-> cfg.secretKey])

\* constructor: if (config.secretKey) { this.bulkIndexClient = axios.create(..) }
bulkIndexClient(cfg) ==
    IF TruthyStr(cfg.secretKey)
        THEN Some([baseURL |-> "https://index-api.searchspring.net",
                   username |-> cfg.siteId, password |-> cfg.secretKey])
        ELSE Undefined

\* A method that threw before it compiled or requested anything
Threw(message) ==
    [sp |-> <<>>, out |-> <<>>, log |-> <<>>, threw |-> TRUE, text |-> message]

\* A method that returned a text without a request
Returned(text) ==
    [sp |-> <<>>, out |-> <<>>, log |-> <<>>, threw |-> FALSE, text |-> text]

suggest(cfg, params, http) ==
    LET sp == << <<"siteId", USVString(cfg.siteId)>> >>
              \o When(TruthyStr(params.query), << <<"q", params.query[1]>> >>)
              \o When(TruthyStr(params.language), << <<"language", params.language[1]>> >>)
              \o When(TruthyNum(params.suggestionCount),
                      << <<"suggestionCount", ToString(params.suggestionCount[1])>> >>)
              \o When(TruthyNum(params.productCount),
                      << <<"productCount", ToString(params.productCount[1])>> >>)
    IN  GetMethod(sp, <<>>, "/api/suggest/query", http,
                  "Suggestions" \o ForQuery(params), "Suggest API error: ")

trending(cfg, params, http) ==
    LET sp == << <<"siteId", USVString(cfg.siteId)>> >>
              \o When(TruthyNum(params.limit), << <<"limit", ToString(params.limit[1])>> >>)
    IN  GetMethod(sp, <<>>, "/api/suggest/trending", http,
                  "Trending search terms", "Trending API error: ")

\* trackEvent posts the object it is given
trackEvent(params, http) ==
    [sp |-> <<>>,
     out |-> <<HttpPost("beaconClient", "/beacon", params)>>,
     log |-> <<>>,
     threw |-> http # "ok",
     text |-> IF http = "ok"
                  THEN "Beacon event tracked successfully: " \o Interpolate(params.type)
                           \o "\n\n" \o ResponseData
                  ELSE "Beacon API error: " \o getErrorMessage(AxiosError(http))]

\* bulkIndex: the guard on the bulk indexing client is before the try; the
\* form is filled (params.feedId.toString() throws a TypeError when feedId
\* is undefined) and sent with POST when there is a feed file, else the
\* feed is triggered with PUT and the query { feedId, requestedBy }
bulkIndex(cfg, params, http) ==
    IF ~Present(bulkIndexClient(cfg))
        THEN Threw("Bulk indexing requires SEARCHSPRING_SECRET_KEY to be configured")
    ELSE IF ~Present(params.feedId)
        THEN Threw("Bulk indexing error: " \o getErrorMessage(TypeErrorReading("toString")))
    ELSE
    LET feedId == ToString(params.feedId[1])
        formData == << <<"feedId", feedId>> >>
                    \o When(TruthyStr(params.feedFile),
                            << <<"feedFile", params.feedFile[1]>> >>)
                    \o When(TruthyStr(params.requestedBy),
                            << <<"requestedBy", params.requestedBy[1]>> >>)
        method == IF TruthyStr(params.feedFile) THEN "POST" ELSE "PUT"
        query == << <<"feedId", feedId>> >>
                 \o When(Present(params.requestedBy),
                         << <<"requestedBy", params.requestedBy[1]>> >>)
    IN  [sp |-> <<>>,
         out |-> <<[client |-> "bulkIndexClient", method |-> method,
                    path |-> "/api/index/feed",
                    query |-> IF method = "PUT" THEN query ELSE <<>>,
                    body |-> IF method = "POST" THEN <<formData>> ELSE <<>>]>>,
         log |-> <<>>,
         threw |-> http # "ok",
         text |-> IF http = "ok"
                      THEN "Bulk indexing "
                               \o (IF method = "POST" THEN "with file upload" ELSE "trigger")
                               \o " completed for feed " \o feedId \o ":\n\n" \o ResponseData
                      ELSE "Bulk indexing error: " \o getErrorMessage(AxiosError(http))]

getBulkIndexStatus(cfg, http) ==
    IF ~Present(bulkIndexClient(cfg))
        THEN Threw("Bulk index status requires SEARCHSPRING_SECRET_KEY to be configured")
    ELSE [sp |-> <<>>,
          out |-> <<HttpGet("bulkIndexClient", "/api/index/status", <<>>)>>,
          log |-> <<>>,
          threw |-> http # "ok",
          text |-> IF http = "ok"
                       THEN "Bulk indexing status:\n\n" \o ResponseData
                       ELSE "Bulk index status error: " \o getErrorMessage(AxiosError(http))]

\* trackSearchResultClick only returns the instructions, with the two
\* values it was given
trackSearchResultClick(params) ==
    Returned("Search result click tracking requires IntelliSuggest JavaScript SDK.\n\n"
             \o "IMPORTANT: Cannot be implemented via direct API calls.\n\n"
             \o "Required implementation:\n"
             \o "1. Include IntelliSuggest script: <script src=\"//cdn.searchspring.net/intellisuggest/is.min.js\"></script>\n"
             \o "2. Use the JavaScript SDK to track clicks with these parameters:\n"
             \o "   - intellisuggestData: " \o Interpolate(params.intellisuggestData) \o "\n"
             \o "   - intellisuggestSignature: "
             \o Interpolate(params.intellisuggestSignature) \o "\n\n"
             \o "These values come from Search API response results.\n"
             \o "Documentation: https://help.searchspring.net/hc/en-us/articles/201185129-Adding-IntelliSuggest-Tracking#productclicks")

\* A lookup of the event's template that has no fallback
TemplateOfEventOnly(platformCode, eventType) == Lookup(platformCode, eventType)

\* platformCode[eventType] || platformCode.product
templateOf(platformCode, eventType) ==
    Either(Lookup(platformCode, eventType), Lookup(platformCode, Some("product")))

\* getPlatformImplementation: the platform's table or the custom one, the
\* event's template or the table's product template, and the platform's
\* documentation URL; platform.toUpperCase() throws when platform is
\* undefined
getPlatformImplementation(params) ==
    LET tables == implementations(OrDefault(params.sku, "PRODUCT_SKU"),
                                  IF Present(params.price) THEN ToString(params.price[1])
                                                           ELSE "99.99",
                                  IF Present(params.quantity)
                                      THEN ToString(params.quantity[1]) ELSE "1")
        platformCode == Either(Lookup(tables, params.platform), Some(tables["custom"]))
        code == templateOf(platformCode[1], params.eventType)
        url == Lookup(documentationUrls, params.platform)
    IN  IF ~Present(params.platform)
            THEN Threw(TypeErrorReading("toUpperCase").message)
            ELSE Returned(trackingImplementationText(
                              params.platform[1], Interpolate(params.eventType),
                              IF Present(code) THEN join(code[1], "\n") ELSE "undefined",
                              Interpolate(url)))

-----------------------------------------------------------------------------
(* The server: main() starts it, then the handler is given calls of the    *)
(* tools it advertises                                                      *)

\* The names of the tools array the ListTools handler returns
AdvertisedTools ==
    {"searchspring_search", "searchspring_autocomplete", "searchspring_suggest",
     "searchspring_trending", "searchspring_finder", "searchspring_recommendations",
     "searchspring_beacon_track", "searchspring_bulk_index",
     "searchspring_bulk_index_status", "searchspring_intellisuggest_track",
     "searchspring_search_result_click", "searchspring_platform_implementation",
     "searchspring_code_validator"}

\* PlatformImplementationParams: the declared platforms and event types
TrackingPlatforms ==
    {"shopify", "bigcommerce-blueprint", "bigcommerce-stencil", "magento1", "magento2",
     "miva", "commercev3", "3dcart", "volusion", "custom"}

TrackingEventTypes == {"product", "cart", "sale", "search-click"}

SuggestArgs ==
    [query : Optional({"", "sho"}), language : Optional({"en"}),
     suggestionCount : Optional({0, 4}), productCount : Optional({5})]

BeaconArgs ==
    [type : Optional({"profile.click"}),
     category : Optional({"custom.category"}),
     id : Optional({"event-1"})]

BulkIndexArgs ==
    [feedId : Optional({12345}), feedFile : Optional({"", "feed.csv"}),
     requestedBy : Optional({"", "admin@example.com"})]

PlatformArgs ==
    {[platform |-> p, eventType |-> e, sku |-> IF given THEN Some("SKU-1") ELSE Undefined,
      price |-> IF given THEN Some(20) ELSE Undefined,
      quantity |-> IF given THEN Some(2) ELSE Undefined] :
        p \in Optional(TrackingPlatforms \cup {"wix"}),
        e \in Optional(TrackingEventTypes),
        given \in BOOLEAN}

ServerRequests ==
    {[name |-> n, arguments |-> a] :
        n \in {"searchspring_search", "searchspring_autocomplete"},
        a \in {[SearchBase EXCEPT !.filters = f, !.userId = u] :
                  f \in Optional(SomeFilterObjects),
                  u \in {Undefined, Some("caller-id")}}}
    \cup {[name |-> "searchspring_suggest", arguments |-> a] : a \in SuggestArgs}
    \cup {[name |-> "searchspring_trending", arguments |-> [limit |-> l]] :
              l \in Optional({0, 6})}
    \cup {[name |-> "searchspring_finder",
           arguments |-> [resultsPerPage |-> rpp, filters |-> f, bgfilters |-> Undefined,
                          includedFacets |-> Undefined, excludedFacets |-> Undefined]] :
              rpp \in Optional({24}), f \in Optional(SomeFilterObjects)}
    \cup {[name |-> "searchspring_recommendations",
           arguments |-> [RecommendationBase EXCEPT !.tags = t]] :
              t \in {Undefined, Some(<<"similar">>)}}
    \cup {[name |-> "searchspring_beacon_track", arguments |-> a] : a \in BeaconArgs}
    \cup {[name |-> "searchspring_bulk_index", arguments |-> a] : a \in BulkIndexArgs}
    \cup {[name |-> "searchspring_bulk_index_status", arguments |-> <<>>]}
    \cup {[name |-> "searchspring_intellisuggest_track",
           arguments |-> [type |-> "cart", event |-> [sku |-> "sku1"], context |-> Undefined]]}
    \cup {[name |-> "searchspring_search_result_click",
           arguments |-> [intellisuggestData |-> d, intellisuggestSignature |-> g]] :
              d \in Optional({"data-1"}), g \in Optional({"signature-1"})}
    \cup {[name |-> "searchspring_platform_implementation", arguments |-> a] :
              a \in PlatformArgs}
    \cup {[name |-> "searchspring_code_validator",
           arguments |-> [code |-> Some("ss.track.product.view({ sku: 'A' });"),
                          codeType |-> Some("tracking"), platform |-> Undefined,
                          issue |-> Undefined]]}
    \cup {[name |-> "searchspring_no_such_tool", arguments |-> SearchBase]}

ReceiveTool ==
    /\ pc = "idle"
    /\ \E req \in ServerRequests : request' = req
    /\ pc' = "pending"
    /\ UNCHANGED <<config, searchParams, outbound, idLog, response,
                   env, generated, report, startupError>>

CallSuggest ==
    /\ pc = "pending"
    /\ request.name = "searchspring_suggest"
    /\ \E http \in HttpOutcomes : Return(suggest(config, request.arguments, http))

CallTrending ==
    /\ pc = "pending"
    /\ request.name = "searchspring_trending"
    /\ \E http \in HttpOutcomes : Return(trending(config, request.arguments, http))

\* Math.random().toString(36).substr(2, 9)
RandomIds == {"k3j9x2m1q", "0z8y7w6v5"}

\* { category: "searchspring.recommendations.user-interactions", id: <random>,
\*   ...args }: the caller's properties replace the two defaults
beaconArgs(a, random) ==
    [a EXCEPT !.category = IF Present(@) THEN @
                              ELSE Some("searchspring.recommendations.user-interactions"),
                 !.id = IF Present(@) THEN @ ELSE Some(random)]

CallBeaconTrack ==
    /\ pc = "pending"
    /\ request.name = "searchspring_beacon_track"
    /\ \E random \in RandomIds, http \in HttpOutcomes :
           Return(trackEvent(beaconArgs(request.arguments, random), http))

CallBulkIndex ==
    /\ pc = "pending"
    /\ request.name = "searchspring_bulk_index"
    /\ \E http \in HttpOutcomes : Return(bulkIndex(config, request.arguments, http))

CallBulkIndexStatus ==
    /\ pc = "pending"
    /\ request.name = "searchspring_bulk_index_status"
    /\ \E http \in HttpOutcomes : Return(getBulkIndexStatus(config, http))

CallSearchResultClick ==
    /\ pc = "pending"
    /\ request.name = "searchspring_search_result_click"
    /\ Return(trackSearchResultClick(request.arguments))

CallPlatformImplementation ==
    /\ pc = "pending"
    /\ request.name = "searchspring_platform_implementation"
    /\ Return(getPlatformImplementation(request.arguments))

\* A handler whose call of a method the client does not have is not caught:
\* the call leaves no response
CallMissingMethodUncaught ==
    /\ pc = "pending"
    /\ request.name \in KnownTools
    /\ methodOf[request.name] \notin ClientMethods
    /\ pc' = "done"
    /\ UNCHANGED <<config, request, searchParams, outbound, idLog, response,
                   env, generated, report, startupError>>

\* searchspringClient.<method>(args) for a method the client's class does
\* not have: the TypeError is thrown inside the handler's try
CallMissingMethod ==
    /\ pc = "pending"
    /\ request.name \in KnownTools
    /\ methodOf[request.name] \notin ClientMethods
    /\ Return(Threw("searchspringClient." \o methodOf[request.name] \o " is not a function"))

NextServer ==
    \/ InitializeClient
    \/ ConnectTransport
    \/ ExitOnStartupError
    \/ ReceiveTool
    \/ CallSearch
    \/ CallAutocomplete
    \/ CallSuggest
    \/ CallTrending
    \/ CallFinder
    \/ CallRecommendations
    \/ CallBeaconTrack
    \/ CallBulkIndex
    \/ CallBulkIndexStatus
    \/ CallIntelliSuggestTrack
    \/ CallSearchResultClick
    \/ CallPlatformImplementation
    \/ CallMissingMethod
    \/ CallUnknown
    \/ Respond

SpecServer == InitStartup /\ [][NextServer]_vars

\* What the dispatched method can return or throw for a request, over the
\* outcomes of its HTTP exchange and of its random draws
MethodResults(cfg, req) ==
    LET a == req.arguments
        n == req.name
        draws == [1..DrawsFor(req) -> GeneratedIds]
        all ==
            IF n = "searchspring_search"
                THEN {search(cfg, a, rnd, http) : rnd \in draws, http \in HttpOutcomes}
            ELSE IF n = "searchspring_autocomplete"
                THEN {autocomplete(cfg, a, rnd, http) : rnd \in draws, http \in HttpOutcomes}
            ELSE IF n = "searchspring_suggest"
                THEN {suggest(cfg, a, http) : http \in HttpOutcomes}
            ELSE IF n = "searchspring_trending"
                THEN {trending(cfg, a, http) : http \in HttpOutcomes}
            ELSE IF n = "searchspring_finder"
                THEN {finder(cfg, finderArguments(a), http) : http \in HttpOutcomes}
            ELSE IF n = "searchspring_recommendations"
                THEN {recommendations(cfg, a, http) : http \in HttpOutcomes}
            ELSE IF n = "searchspring_beacon_track"
                THEN {trackEvent(beaconArgs(a, random), http) :
                          random \in RandomIds, http \in HttpOutcomes}
            ELSE IF n = "searchspring_bulk_index"
                THEN {bulkIndex(cfg, a, http) : http \in HttpOutcomes}
            ELSE IF n = "searchspring_bulk_index_status"
                THEN {getBulkIndexStatus(cfg, http) : http \in HttpOutcomes}
            ELSE IF n = "searchspring_intellisuggest_track"
                THEN {trackIntelliSuggestEvent(cfg, a, rnd, http) :
                          rnd \in draws, http \in HttpOutcomes}
            ELSE IF n = "searchspring_search_result_click"
                THEN {trackSearchResultClick(a)}
            ELSE IF n = "searchspring_platform_implementation"
                THEN {getPlatformImplementation(a)}
            ELSE {}
    IN  {[threw |-> r.threw, text |-> r.text] : r \in all}

MissingMethod(req) ==
    req.name \in KnownTools /\ methodOf[req.name] \notin ClientMethods

\* C21: the handler answers every call.  An unknown tool, a method the
\* client does not have and a method that throws each end in a response
\* with isError true and the text "Error: <message>"; a method that returns
\* has its text in the response, with isError false.
C21_HandlerNeverThrows ==
    pc = "done" =>
        /\ Present(response)
        /\ request.name \notin KnownTools
              => response[1] = [isError |-> TRUE,
                                text |-> "Error: Unknown tool: " \o request.name]
        /\ MissingMethod(request)
              => response[1] = [isError |-> TRUE,
                                text |-> "Error: searchspringClient."
                                             \o methodOf[request.name] \o " is not a function"]
        /\ (request.name \in KnownTools /\ ~MissingMethod(request))
              => \E r \in MethodResults(config, request) :
                    response[1] = IF r.threw
                                      THEN [isError |-> TRUE, text |-> "Error: " \o r.text]
                                      ELSE [isError |-> FALSE, text |-> r.text]
        /\ response[1].isError
              => /\ StartsWith(response[1].text, "Error: ")
                 /\ Len(response[1].text) > Len("Error: ")

\* A call of a tool whose method the client does not have was answered
C21_Witness ==
    /\ pc = "done"
    /\ MissingMethod(request)
    /\ Present(response)
    /\ response[1].isError

\* The transport is connected: the handler can be given calls
Connected == pc \in {"idle", "pending", "done"}

\* C22: the transport is connected only after initializeClient has assigned
\* the client from a valid config; when validateConfig throws the transport
\* is never connected, no client is assigned and the process exits; no call
\* is dispatched without a client, and the client is assigned once, by
\* initializeClient, and never again.
C22_StartupOrdering ==
    /\ [](Connected => /\ ~validateConfig(env).threw
                       /\ config # NoClient
                       /\ config = validateConfig(env).config[1])
    /\ [](validateConfig(env).threw
              => /\ pc \in {"starting", "exited"}
                 /\ config = NoClient
                 /\ (pc = "exited" <=> Present(startupError)))
    /\ [][/\ config' # config
              => (config = NoClient /\ pc = "starting" /\ pc' = "initialized")
          /\ pc = "exited" => pc' = "exited"]_vars

\* A call was dispatched to the client initializeClient had assigned
C22_Witness ==
    /\ pc = "done"
    /\ request.name = "searchspring_bulk_index_status"
    /\ config # NoClient
    /\ ~response[1].isError

BulkTools == {"searchspring_bulk_index", "searchspring_bulk_index_status"}

SecretKeyConfigured == Present(env.SEARCHSPRING_SECRET_KEY)

\* C23: the client has a bulk indexing client exactly when a secret key was
\* configured.  Without one bulkIndex and getBulkIndexStatus fail with an
\* error that names SEARCHSPRING_SECRET_KEY and no request has gone out;
\* with one they do not fail that way.  What any other tool can answer does
\* not depend on the secret key.
C23_BulkIndexNeedsSecretKey ==
    Connected =>
        /\ Present(bulkIndexClient(config)) <=> SecretKeyConfigured
        /\ (Done(BulkTools) /\ ~SecretKeyConfigured)
              => /\ response[1].isError
                 /\ Includes(response[1].text, "SEARCHSPRING_SECRET_KEY")
                 /\ outbound = <<>>
        /\ (Done(BulkTools) /\ SecretKeyConfigured)
              => /\ ~Includes(response[1].text, "SEARCHSPRING_SECRET_KEY")
                 /\ outbound = <<>> => (response[1].isError /\ ~Present(args.feedId))
                 /\ \A i \in DOMAIN outbound : outbound[i].client = "bulkIndexClient"
        /\ Done(AdvertisedTools \ BulkTools)
              => /\ ~Includes(response[1].text, "SEARCHSPRING_SECRET_KEY")
                 /\ MethodResults([config EXCEPT !.secretKey = Undefined], request)
                        = MethodResults([config EXCEPT !.secretKey = Some("s3cret")], request)

\* bulkIndex was called on a server started without a secret key
C23_Witness ==
    /\ Done({"searchspring_bulk_index"})
    /\ ~SecretKeyConfigured
    /\ Present(args.feedId)
    /\ response[1].isError

-----------------------------------------------------------------------------
(* The caller's parameter object *)

CompilingTools ==
    {"searchspring_search", "searchspring_autocomplete", "searchspring_finder",
     "searchspring_recommendations", "searchspring_intellisuggest_track"}

\* C24: while a call is handled, whether its method returns or throws, the
\* arguments object of the request is left as the caller sent it: filters,
\* sort, the arrays and the absent identity fields included.  The defaults
\* the call synthesizes are in the query it compiled only.
C24_InputNotMutated ==
    [][(pc = "pending" /\ request.name \in CompilingTools)
          => /\ request' = request
             /\ pc' = "done"]_vars

\* A search that failed after it had generated the userId of a caller who
\* sent none: the generated value is in the compiled query, not in args
C24_Witness ==
    /\ Done({"searchspring_search"})
    /\ response[1].isError
    /\ args.userId = Undefined
    /\ Len(idLog) = 1
    /\ ValuesOf(searchParams, "userId") = <<idLog[1].value>>

-----------------------------------------------------------------------------
(* generateCode: the two names of the tracking generator *)

GeneratorTool == {"generateCode"}

TextResponse(r) ==
    IF r.threw THEN [isError |-> TRUE, text |-> "Error: " \o r.text]
               ELSE [isError |-> FALSE, text |-> r.text]

IsTrackingCode(r) == StartsWith(r.text, "IntelliSuggest Tracking Implementation for ")

\* C25: generateCode answers api "tracking" as it answers api "beacon" with
\* the same platform, eventType and useCase.  It returns the tracking code
\* exactly when the api is beacon or tracking and an eventType is given;
\* otherwise it returns what generateApiCode gives for the resolved api.
C25_TrackingIsBeacon ==
    (Done(GeneratorTool) /\ Present(args.platform)) =>
        LET resolved == IF args.api = Some("tracking") THEN Some("beacon") ELSE args.api
            tracked == resolved = Some("beacon") /\ Present(args.eventType)
        IN  /\ args.api = Some("tracking")
                  => response[1] = TextResponse(generateCode([args EXCEPT !.api = Some("beacon")]))
            /\ IsTrackingCode(response[1]) <=> tracked
            /\ tracked
                  => response[1] = TextResponse(generateTrackingCode(args.platform,
                                                                      args.eventType[1]))
            /\ ~tracked
                  => response[1] = TextResponse(generateApiCode(resolved, args.platform,
                                                                 args.useCase))

\* The legacy name was used with an eventType: the tracking code came back
C25_Witness ==
    /\ Done(GeneratorTool)
    /\ args.api = Some("tracking")
    /\ args.platform = Some("magento2")
    /\ args.eventType = Some("sale")
    /\ IsTrackingCode(response[1])

-----------------------------------------------------------------------------
(* The tracking templates *)

PlatformTool == {"searchspring_platform_implementation"}

\* The table and the template the lookup is to end in
TableFor(tables, platform) == IF platform \in DOMAIN tables THEN platform ELSE "custom"

TemplateFor(table, eventType) == IF eventType \in DOMAIN table THEN eventType ELSE "product"

\* The text has this snippet as its implementation code and this URL as
\* its documentation
Implements(text, snippet, url) ==
    Includes(text, "Implementation Code:\n" \o join(snippet, "\n")
                       \o "\n\nDocumentation: " \o url \o "\n")

\* C26: for every declared platform and event type the tracking text has a
\* snippet and a documentation URL.  getPlatformImplementation takes the
\* platform's table, or the custom table when the platform has none, and
\* in it the event's template, or the product template when the event has
\* none, and the platform's own URL; generateTrackingCode does the same over
\* its two tables, with the custom URL for a platform that has no URL.
C26_TemplateLookupTotal ==
    (Done(PlatformTool) /\ Present(args.platform) /\ Present(args.eventType)
        /\ args.platform[1] \in TrackingPlatforms) =>
        LET tables == implementations(OrDefault(args.sku, "PRODUCT_SKU"),
                                      IF Present(args.price) THEN ToString(args.price[1])
                                                             ELSE "99.99",
                                      IF Present(args.quantity) THEN ToString(args.quantity[1])
                                                                ELSE "1")
            table == tables[TableFor(tables, args.platform[1])]
            later == [p \in {"shopify", "custom"} |->
                         implementations("PRODUCT_SKU", "99.99", "1")[p]]
        IN  /\ ~response[1].isError
            /\ Implements(response[1].text, table[TemplateFor(table, args.eventType[1])],
                          documentationUrls[args.platform[1]])
            /\ \A p \in GeneratorPlatforms, e \in GeneratorEventTypes :
                  LET r == generateTrackingCode(Some(p), e)
                      t == later[TableFor(later, p)]
                  IN  /\ ~r.threw
                      /\ Implements(r.text, t[TemplateFor(t, e)],
                                    documentationUrls[TableFor(later, p)])

\* A platform without a table and an event type without a template: the
\* custom table's product template was returned
C26_Witness ==
    /\ Done(PlatformTool)
    /\ args.platform = Some("volusion")
    /\ args.eventType = Some("search-click")
    /\ Includes(response[1].text, "<!-- Generic implementation for product view -->")
    /\ Includes(response[1].text, "Documentation: https://help.searchspring.net/hc/en-us/articles/115001879966")

-----------------------------------------------------------------------------
(* The advertised tools and the switch *)

\* C27: every advertised tool has a case in the switch and every case names
\* an advertised tool; a call of an advertised tool reaches a method the
\* client has, so its answer is neither `Unknown tool` nor the TypeError of
\* calling what is not a function.
C27_AdvertisedToolsDispatchable ==
    /\ AdvertisedTools = KnownTools
    /\ Done(AdvertisedTools)
          => /\ methodOf[request.name] \in ClientMethods
             /\ ~StartsWith(response[1].text, "Error: Unknown tool")
             /\ ~Includes(response[1].text, "is not a function")

-----------------------------------------------------------------------------
(* The earlier client: search and finder *)

\* A filter loop that appends one comma-joined entry per field
EarlierFiltersJoined(obj) ==
    LET es == ObjectEntries(obj)
    IN  [i \in DOMAIN es |-> <<"filter." \o es[i].k, join(es[i].v.vals, ",")>>]

\* Object.entries(params.filters).forEach(([key, value]) => ...) of the
\* earlier search and finder: value.forEach(v => append(`filter.${key}`, v))
\* for an array, append(`filter.${key}`, value) otherwise
earlierFilters(obj) ==
    LET es == ObjectEntries(obj)
    IN  Concat([i \in DOMAIN es |->
            IF es[i].v.arr
                THEN [j \in DOMAIN es[i].v.vals |-> <<"filter." \o es[i].k, es[i].v.vals[j]>>]
                ELSE << <<"filter." \o es[i].k, es[i].v.vals[1]>> >>])

\* (x || d).toString()
NumberOr(opt, d) == IF TruthyNum(opt) THEN ToString(opt[1]) ELSE ToString(d)

earlierSearch(cfg, params, http) ==
    LET sp == << <<"q", USVString(params.query)>>,
                 <<"page", NumberOr(params.page, 1)>>,
                 <<"resultsPerPage", NumberOr(params.resultsPerPage, 20)>>,
                 <<"siteId", USVString(cfg.siteId)>> >>
              \o When(TruthyStr(params.sort), << <<"sort", params.sort[1]>> >>)
              \o When(TruthyObj(params.filters), earlierFilters(params.filters[1]))
    IN  [sp |-> sp, out |-> <<HttpGet("apiClient", "/api/search/search.json", sp)>>,
         log |-> <<>>, threw |-> http # "ok",
         text |-> IF http = "ok"
                      THEN "Search Results for \"" \o Interpolate(params.query) \o "\":\n\n"
                               \o ResponseData
                      ELSE "Search API error: " \o getErrorMessage(AxiosError(http))]

earlierFinder(cfg, params, http) ==
    LET sp == << <<"siteId", USVString(cfg.siteId)>>,
                 <<"page", NumberOr(params.page, 1)>>,
                 <<"resultsPerPage", NumberOr(params.resultsPerPage, 20)>> >>
              \o When(TruthyStr(params.query), << <<"q", params.query[1]>> >>)
              \o When(TruthyStr(params.sort), << <<"sort", params.sort[1]>> >>)
              \o When(params.includeMetadata # Some(FALSE), << <<"includeMetadata", "true">> >>)
              \o When(TruthyObj(params.filters), earlierFilters(params.filters[1]))
              \o When(TruthyObj(params.facets),
                      [i \in DOMAIN params.facets[1] |-> <<"facet", params.facets[1][i]>>])
    IN  [sp |-> sp, out |-> <<HttpGet("apiClient", "/api/finder/search", sp)>>,
         log |-> <<>>, threw |-> http # "ok",
         text |-> IF http = "ok"
                      THEN "Finder API results" \o ForQuery(params) \o ":\n\n" \o ResponseData
                      ELSE "Finder API error: " \o getErrorMessage(AxiosError(http))]

\* The calls of the two tools as the earlier handler's schemas declare them
EarlierRequests ==
    {[name |-> "searchspring_search",
      arguments |-> [query |-> Some("shoes"), page |-> p, resultsPerPage |-> Undefined,
                     filters |-> f, sort |-> s]] :
          p \in Optional({0, 2}), f \in Optional(FilterObjects), s \in Optional({"price"})}
    \cup {[name |-> "searchspring_finder",
           arguments |-> [query |-> Undefined, filters |-> f, facets |-> Undefined,
                          sort |-> Undefined, page |-> Undefined,
                          resultsPerPage |-> Undefined, includeMetadata |-> Undefined]] :
          f \in Optional(FilterObjects)}
    \cup {[name |-> "searchspring_finder",
           arguments |-> [query |-> q, filters |-> f, facets |-> fc,
                          sort |-> Undefined, page |-> Undefined,
                          resultsPerPage |-> Some(24), includeMetadata |-> im]] :
          q \in Optional({"", "shoes"}), f \in Optional(SomeFilterObjects),
          fc \in Optional({<<>>, <<"size", "color">>}), im \in Optional(BOOLEAN)}

ReceiveEarlier ==
    /\ pc = "idle"
    /\ \E req \in EarlierRequests : request' = req
    /\ pc' = "pending"
    /\ UNCHANGED <<config, searchParams, outbound, idLog, response,
                   env, generated, report, startupError>>

\* case "searchspring_search": return await searchspringClient.search(args)
CallEarlierSearch ==
    /\ pc = "pending"
    /\ request.name = "searchspring_search"
    /\ \E http \in HttpOutcomes : Return(earlierSearch(config, request.arguments, http))

\* case "searchspring_finder": return await searchspringClient.finder(args)
CallEarlierFinder ==
    /\ pc = "pending"
    /\ request.name = "searchspring_finder"
    /\ \E http \in HttpOutcomes : Return(earlierFinder(config, request.arguments, http))

NextEarlier ==
    \/ ReceiveEarlier
    \/ CallEarlierSearch
    \/ CallEarlierFinder
    \/ Respond

\* The earlier schema requires a site id; of its config the two methods read
\* siteId only
InitEarlier ==
    /\ config = [siteId |-> Some("abc123"), secretKey |-> Undefined, timeout |-> 10000]
    /\ env = [SEARCHSPRING_SITE_ID |-> config.siteId,
              SEARCHSPRING_SECRET_KEY |-> Undefined,
              SEARCHSPRING_TIMEOUT |-> Undefined]
    /\ generated = Undefined
    /\ report = Undefined
    /\ startupError = Undefined
    /\ pc = "idle"
    /\ request = NoRequest
    /\ searchParams = <<>>
    /\ outbound = <<>>
    /\ idLog = <<>>
    /\ response = Undefined

SpecEarlier == InitEarlier /\ [][NextEarlier]_vars

\* The entries of a compiled query that encode the filters
FilterEntries(sp) == SelectSeq(sp, LAMBDA e : StartsWith(e[1], "filter."))

\* The filter entries each method of the later client compiles for a mapping
LaterFilterEntries(cfg, filters) ==
    [buildSearchParams |->
         FilterEntries(buildSearchParams(cfg.siteId, [SearchBase EXCEPT !.filters = filters])),
     finder |->
         FilterEntries(finder(cfg, [resultsPerPage |-> Some(0), filters |-> filters,
                                    bgfilters |-> Undefined, includedFacets |-> Undefined,
                                    excludedFacets |-> Undefined], "ok").sp),
     recommendations |->
         FilterEntries(recommendations(cfg, [RecommendationBase EXCEPT !.filters = filters],
                                       "ok").sp)]

\* C28: for the mapping a call of the earlier search or finder was given,
\* its filter.<field> entries are those the later buildSearchParams, finder
\* and recommendations compile for the same mapping, in the same order: one
\* entry per element of an array and one for a scalar, none comma-joined.
C28_FilterEncodingsAgree ==
    (pc = "done" /\ request.name \in {"searchspring_search", "searchspring_finder"}) =>
        LET mine == FilterEntries(searchParams)
            later == LaterFilterEntries(config, args.filters)
        IN  /\ mine = later.buildSearchParams
            /\ mine = later.finder
            /\ mine = later.recommendations
            /\ OnePerValue("filter.", args.filters)
            /\ Len(mine) = IF Present(args.filters)
                               THEN Len(Concat([i \in DOMAIN args.filters[1] |->
                                                   args.filters[1][i].v.vals]))
                               ELSE 0

\* The earlier finder compiled a mapping with a two-element array and a
\* scalar
C28_Witness ==
    /\ pc = "done"
    /\ request.name = "searchspring_finder"
    /\ Present(args.filters)
    /\ ValuesOf(searchParams, "filter.brand") = <<"a", "b">>
    /\ ValuesOf(searchParams, "filter.10") = <<"b">>
    /\ Len(FilterEntries(searchParams)) = 3

\* ---------------------------------------------------------------------
\* codeType beacon against codeType tracking
\* ---------------------------------------------------------------------

\* What the beacon battery alone can report
BeaconFindings ==
    {Finding.BeaconEndpointMissing, Finding.BeaconEndpointDetected,
     Finding.PostError, Finding.TypeFieldError}

TemplateWarnings == {Finding.LiquidWarning, Finding.PhpWarning}

\* The findings of the report for the same snippet under another codeType
FindingsUnder(codeType) ==
    validationResultsOf(args.code[1], codeType)
    \o warningsOf(args.code[1], codeType, args.platform)
    \o platformSuggestions(args.code[1], args.platform)

ReportedFor(codeType) ==
    Reported /\ Present(args.code) /\ args.codeType = Some(codeType)

\* C29: with no platform, what the report for codeType tracking holds the
\* report for codeType beacon holds too, and the beacon report adds only
\* the beacon-endpoint, POST and 'type' findings; with platform shopify or
\* magento2 the template-syntax warning is in the report of codeType
\* tracking only, and there exactly when the snippet lacks the syntax
C29_BeaconExtendsTracking ==
    /\ (ReportedFor("beacon") /\ args.platform = Undefined)
           => /\ Range(FindingsUnder("tracking")) \subseteq Range(findings)
              /\ Range(findings) \ Range(FindingsUnder("tracking")) \subseteq BeaconFindings
              /\ Range(findings) \cap BeaconFindings # {}
    /\ (ReportedFor("tracking") /\ args.platform = Undefined)
           => /\ Range(findings) \subseteq Range(FindingsUnder("beacon"))
              /\ Range(findings) \cap BeaconFindings = {}
    /\ (Reported /\ Present(args.code) /\ args.codeType # Some("tracking"))
           => Range(findings) \cap TemplateWarnings = {}
    /\ (ReportedFor("tracking") /\ args.platform = Some("shopify"))
           => (Finding.LiquidWarning \in Range(findings) <=> ~Includes(args.code[1], "{{"))
    /\ (ReportedFor("tracking") /\ args.platform = Some("magento2"))
           => (Finding.PhpWarning \in Range(findings) <=> ~Includes(args.code[1], "<?="))

\* A beacon report, no platform supplied, for a snippet that calls
\* ss.track: the tracking findings and the beacon-endpoint finding with them
C29_Witness ==
    /\ ReportedFor("beacon") /\ args.platform = Undefined
    /\ Includes(args.code[1], "ss.track")
    /\ Finding.TrackingDetected \in Range(findings)
    /\ Finding.BeaconEndpointMissing \in Range(findings)

\* C30: for a read-API codeType, the report has the 'Missing tracking
\* parameters (userId, sessionId)' warning whenever the snippet lacks
\* userId or lacks sessionId
C30_IdentityWarningWhenEitherMissing ==
    (/\ Reported /\ Present(args.code)
     /\ Present(args.codeType) /\ args.codeType[1] \in ReadApis
     /\ (~Includes(args.code[1], "userId") \/ ~Includes(args.code[1], "sessionId")))
        => Finding.IdentityWarning \in Range(report[1].warnings)
====
